---- MODULE Spec2Model ----
(***************************************************************************)
(* State management and persistence of the todo list application.          *)
(*                                                                         *)
(* Two implementations live in the repository and both are modelled:       *)
(*   - src/data-layer.js : Task, AppState, StorageService (envelope with    *)
(*     checksum, key todoListApp_v1).  Definitions prefixed DL_.            *)
(*   - src/app.js        : Task, AppState, StorageService and the TodoApp   *)
(*     controller (undo/redo, auto-save, cross-tab storage events, key      *)
(*     todoApp_v1).  Definitions prefixed App_ / TodoApp_.                  *)
(*                                                                         *)
(* Encoding of JavaScript values:                                          *)
(*   - an optional value (null / undefined / absent key) is a sequence of   *)
(*     length 0 or 1: <<>> is null, <<v>> is the value v;                   *)
(*   - timestamps (new Date().toISOString()) are readings of the clock      *)
(*     variable now;                                                       *)
(*   - a JSON text is the record of the value it parses to, or an           *)
(*     unparseable text.                                                    *)
(***************************************************************************)
EXTENDS Integers, Sequences, FiniteSets, TLC

VARIABLES
    state,            \* data-layer.js: the live AppState instance
    localStorage,     \* the origin's localStorage: key -> optional raw value
    storageAvailable, \* whether the localStorage probe succeeds
    pendingSaves,     \* data-layer.js: per caller, the saveState call suspended on
                      \* its checksum (<<>> when the caller has none)
    dispatched,       \* window events dispatched, and console warnings written, by
                      \* the last storage operation
    validation,       \* data-layer.js ValidationService: the candidate last handed
                      \* in, the value it has become, and how often it was sanitised
    backup,           \* data-layer.js: the text the last exportData returned and
                      \* the text last handed to importData, where they are recorded
    heldSnapshot,     \* app.js: the object the last createSnapshot returned, kept by
                      \* the caller
    tampering,        \* the fields of the stored data-layer record that were
                      \* altered outside the service since it was written
    loaded,           \* the AppState the last data-layer loadState returned, or the
                      \* last fresh AppState that fromJSON was applied to
    result,           \* outcome of the last operation
    now,              \* the clock
    appState,         \* app.js: a standalone AppState instance
    app,              \* app.js: the TodoApp of each browsing context
    eventQueue        \* app.js: 'storage' events not yet delivered to a context

vars == <<state, localStorage, storageAvailable, pendingSaves, dispatched,
          tampering, validation, backup, heldSnapshot, loaded, result, now, appState, app,
          eventQueue>>

\* what the data-layer AppState and StorageService actions leave alone
appVars == <<appState, app, eventQueue, validation, backup, heldSnapshot>>

(***************************************************************************)
(* Bounds of the model.                                                    *)
(***************************************************************************)
MaxTasks == 3

\* tasks held while the storage service is exercised
MaxSavedTasks == 1

\* tasks a state holds where both AppState classes are exercised together
MaxHeld == 2

Ids == 1..MaxTasks

\* A text is a sequence of characters.  The character "B" stands for a block
\* of 6 MiB of letters, so that a text can exceed the 5 MiB storage bound.
Texts == {<<"a">>, <<"B">>}

Min(S) == CHOOSE x \in S : \A y \in S : x <= y

RECURSIVE SeqSum(_)
SeqSum(s) == IF s = <<>> THEN 0 ELSE Head(s) + SeqSum(Tail(s))

SelectIdx(s, Test(_)) == {i \in 1..Len(s) : Test(s[i])}

RemoveAt(s, i) == SubSeq(s, 1, i - 1) \o SubSeq(s, i + 1, Len(s))

\* the outcome record of an operation: ret is the value returned (TRUE for
\* void), threw whether an exception reached the caller, why the branch taken
\* (for the operations that take a task id: the id they were called with)
Outcome(op, ret, threw, why) == [op |-> op, ret |-> ret, threw |-> threw, why |-> why]

(***************************************************************************)
(* data-layer.js : Task                                                    *)
(***************************************************************************)
DL_TaskFields == {"id", "text", "completed", "priority", "category",
                  "createdAt", "updatedAt", "order"}

\* new Task({text, completed, priority, category}) with generateId() = id
DL_Task(id, text, completed, t) ==
    [id |-> id, text |-> text, completed |-> completed, priority |-> "medium",
     category |-> "general", createdAt |-> t, updatedAt |-> t, order |-> 0]

DL_allowedUpdates == {"text", "completed", "priority", "category", "order"}

DL_Task_update_anyKey(task, updates, t) ==
    [f \in DL_TaskFields |->
        IF f = "updatedAt" THEN t
        ELSE IF f \in DOMAIN updates THEN updates[f]
        ELSE task[f]]

\* Task.update(updates): whitelisted keys are copied, updatedAt refreshed
DL_Task_update(task, updates, t) ==
    [f \in DL_TaskFields |->
        IF f = "updatedAt" THEN t
        ELSE IF f \in DL_allowedUpdates /\ f \in DOMAIN updates THEN updates[f]
        ELSE task[f]]

\* Task.validate(). Ids are the numbers from 1 (generateId never gives the
\* empty string), timestamps are clock readings (non-empty ISO strings).
DL_Task_validate(task) ==
    /\ task.id \in Nat /\ task.id >= 1
    /\ task.text \in Seq(STRING) /\ Len(SelectSeq(task.text, LAMBDA ch : ch # " ")) > 0
    /\ task.completed \in BOOLEAN
    /\ task.createdAt \in Nat
    /\ task.updatedAt \in Nat
    /\ task.order \in Int

\* Task.toJSON()
DL_Task_toJSON(task) == [f \in DL_TaskFields |-> task[f]]

DL_Task_fromJSON_newTimestamps(data, freshId, t) ==
    [f \in DL_TaskFields |->
        IF f \in {"createdAt", "updatedAt"} THEN t
        ELSE IF f \in DOMAIN data THEN data[f]
        ELSE DL_Task(freshId, <<>>, FALSE, t)[f]]

\* Task.fromJSON(data): new Task({text: data.text}) then Object.assign(task, data);
\* keys absent from data keep the constructor's values (fresh id, defaults)
DL_Task_fromJSON(data, freshId, t) ==
    LET fresh == DL_Task(freshId, <<>>, FALSE, t)
    IN  [f \in DL_TaskFields |-> IF f \in DOMAIN data THEN data[f] ELSE fresh[f]]

(***************************************************************************)
(* data-layer.js : AppState                                                *)
(***************************************************************************)
DL_defaultFilters == [category |-> "all", priority |-> "all", status |-> "all", search |-> ""]

\* new AppState()
DL_AppState ==
    [tasks |-> <<>>, nextOrderId |-> 0, lastSync |-> <<>>,
     stats |-> [total |-> 0, completed |-> 0, pending |-> 0, completionRate |-> 0],
     filters |-> DL_defaultFilters]

\* Math.round((completed / total) * 100): round half up
MathRoundPct(completed, total) == (200 * completed + total) \div (2 * total)

DL_updateStats(s) ==
    LET total == Len(s.tasks)
        completed == Cardinality(SelectIdx(s.tasks, LAMBDA t : t.completed))
    IN  [s EXCEPT !.stats = [total |-> total, completed |-> completed,
                             pending |-> total - completed,
                             completionRate |-> IF total > 0
                                                THEN MathRoundPct(completed, total)
                                                ELSE 0]]

DL_addTask(s, task) ==
    DL_updateStats([s EXCEPT !.tasks = Append(@, [task EXCEPT !.order = s.nextOrderId]),
                             !.nextOrderId = @ + 1])

DL_reorderTasks(s) ==
    [s EXCEPT !.tasks = [i \in 1..Len(s.tasks) |-> [s.tasks[i] EXCEPT !.order = i - 1]],
              !.nextOrderId = Len(s.tasks)]

\* index (1-based) of the first task with the id, 0 when there is none
DL_findIndex(s, taskId) ==
    LET hits == SelectIdx(s.tasks, LAMBDA t : t.id = taskId)
    IN  IF hits = {} THEN 0 ELSE Min(hits)

DL_removeTask_noReorder(s, taskId) ==
    LET index == DL_findIndex(s, taskId)
    IN  IF index # 0
        THEN DL_updateStats([s EXCEPT !.tasks = RemoveAt(@, index)])
        ELSE s

DL_removeTask(s, taskId) ==
    LET index == DL_findIndex(s, taskId)
    IN  IF index # 0
        THEN DL_updateStats(DL_reorderTasks([s EXCEPT !.tasks = RemoveAt(@, index)]))
        ELSE s

DL_updateTask_staleStats(s, taskId, updates, t) ==
    LET index == DL_findIndex(s, taskId)
    IN  IF index # 0
        THEN [s EXCEPT !.tasks[index] = DL_Task_update(@, updates, t)]
        ELSE s

\* updateTask on a miss: a variant that falls back to the first task
DL_updateTask_firstOnMiss(s, taskId, updates, t) ==
    LET index == IF DL_findIndex(s, taskId) # 0 THEN DL_findIndex(s, taskId)
                 ELSE IF s.tasks # <<>> THEN 1 ELSE 0
    IN  IF index # 0 /\ updates # [null |-> TRUE]
        THEN DL_updateStats([s EXCEPT !.tasks[index] = DL_Task_update(@, updates, t)])
        ELSE s

\* updateTask(taskId, updates) raises when the task is held and updates is
\* null (Object.keys(null) in Task.update)
DL_updateTask_throws(s, taskId, updates) ==
    DL_findIndex(s, taskId) # 0 /\ updates = [null |-> TRUE]

\* the state after updateTask(taskId, updates); nothing is assigned before
\* Task.update raises
DL_updateTask(s, taskId, updates, t) ==
    LET index == DL_findIndex(s, taskId)
    IN  IF index # 0 /\ updates # [null |-> TRUE]
        THEN DL_updateStats([s EXCEPT !.tasks[index] = DL_Task_update(@, updates, t)])
        ELSE s

\* setTasks(tasks): every entry goes through Task.fromJSON; nextOrderId is kept
DL_setTasks(s, tasks, t) ==
    DL_updateStats([s EXCEPT !.tasks =
        [i \in 1..Len(tasks) |-> DL_Task_fromJSON(tasks[i], Cardinality(Ids) + i, t)]])

\* AppState.setFilters(filters): {...this.filters, ...filters}
DL_setFilters(s, filters) ==
    [s EXCEPT !.filters = [f \in DOMAIN s.filters \cup DOMAIN filters |->
                              IF f \in DOMAIN filters THEN filters[f] ELSE s.filters[f]]]

\* String.prototype.toLowerCase on the letters of the model
DL_toLowerCase(text) ==
    [i \in 1..Len(text) |->
        CASE text[i] = "A" -> "a"
          [] text[i] = "B" -> "b"
          [] OTHER -> text[i]]

\* String.prototype.includes
DL_includes(text, searchTerm) ==
    \E i \in 0..(Len(text) - Len(searchTerm)) :
        SubSeq(text, i + 1, i + Len(searchTerm)) = searchTerm

\* the characters of a filters.search string
DL_chars(search) ==
    CASE search = "" -> <<>>
      [] search = "a" -> <<"a">>
      [] search = "A" -> <<"A">>
      [] search = "b" -> <<"b">>
      [] search = "Ba" -> <<"B", "a">>

DL_passesAnyFilter(filters, task) ==
    \/ filters.category = task.category
    \/ filters.priority = task.priority
    \/ filters.status = "completed" /\ task.completed
    \/ filters.status = "pending" /\ ~task.completed
    \/ filters.search # "" /\ DL_includes(DL_toLowerCase(task.text),
                                            DL_toLowerCase(DL_chars(filters.search)))

\* the callback of getFilteredTasks: the first failing filter returns false,
\* a non-empty search decides last
DL_passesFilters(filters, task) ==
    IF filters.category # "all" /\ task.category # filters.category THEN FALSE
    ELSE IF filters.priority # "all" /\ task.priority # filters.priority THEN FALSE
    ELSE IF filters.status # "all" /\ filters.status = "completed" /\ ~task.completed THEN FALSE
    ELSE IF filters.status # "all" /\ filters.status = "pending" /\ task.completed THEN FALSE
    ELSE IF filters.search # ""
         THEN DL_includes(DL_toLowerCase(task.text), DL_toLowerCase(DL_chars(filters.search)))
    ELSE TRUE

\* AppState.getFilteredTasks(): this.tasks.filter(callback)
DL_getFilteredTasks(s) ==
    LET keep(task) == DL_passesFilters(s.filters, task)
    IN  SelectSeq(s.tasks, keep)

\* AppState.toJSON(): the plain object that JSON.stringify serialises.
\* tasksKind tells an array from an absent or non-array `tasks` value.
DL_toJSON(s) ==
    [tasksKind |-> "array",
     tasks |-> [i \in 1..Len(s.tasks) |-> DL_Task_toJSON(s.tasks[i])],
     nextOrderId |-> <<s.nextOrderId>>,
     lastSync |-> s.lastSync,
     filters |-> <<s.filters>>]

\* a null entry of a tasks array (Task.fromJSON(null) raises a TypeError)
NullEntry == [null |-> TRUE]

\* whether the try block of AppState.fromJSON(data) raises: data is null or
\* undefined, `tasks` is truthy without a map method, or an entry is null
DL_fromJSON_throws(data) ==
    \/ data = <<>>
    \/ data[1].tasksKind = "other"
    \/ /\ data[1].tasksKind = "array"
       /\ \E i \in 1..Len(data[1].tasks) : data[1].tasks[i] = NullEntry

\* AppState.fromJSON(data): the state afterwards (unchanged when it raises:
\* the only statement that can raise precedes every assignment)
DL_fromJSON(s, data, t) ==
    IF DL_fromJSON_throws(data) THEN s
    ELSE LET d == data[1]
             withTasks == IF d.tasksKind = "array"
                          THEN [s EXCEPT !.tasks =
                                  [i \in 1..Len(d.tasks) |->
                                      DL_Task_fromJSON(d.tasks[i], Cardinality(Ids) + i, t)]]
                          ELSE s
         IN  DL_updateStats(
                 [withTasks EXCEPT
                     !.nextOrderId = IF d.nextOrderId = <<>> THEN 0 ELSE d.nextOrderId[1],
                     !.lastSync = d.lastSync,
                     !.filters = IF d.filters = <<>> THEN s.filters ELSE d.filters[1]])

(***************************************************************************)
(* app.js : Task                                                           *)
(***************************************************************************)
App_TaskFields == {"id", "text", "completed", "order", "priority", "category",
                   "createdAt", "updatedAt"}

IsSpace(c) == c = " "

\* String.prototype.trim()
RECURSIVE TrimLeft(_)
TrimLeft(text) ==
    IF text # <<>> /\ IsSpace(Head(text)) THEN TrimLeft(Tail(text)) ELSE text

RECURSIVE TrimRight(_)
TrimRight(text) ==
    IF text # <<>> /\ IsSpace(text[Len(text)])
    THEN TrimRight(SubSeq(text, 1, Len(text) - 1))
    ELSE text

Trim(text) == TrimRight(TrimLeft(text))

\* new Task(data) raises when data.text is missing or the empty string
App_Task_throws(data) == "text" \notin DOMAIN data \/ data.text = <<>>

\* new Task(data): data.id || generateId(), text trimmed, defaults for the rest
App_Task(data, freshId, t) ==
    [id |-> IF "id" \in DOMAIN data THEN data.id ELSE freshId,
     text |-> Trim(data.text),
     completed |-> IF "completed" \in DOMAIN data THEN data.completed ELSE FALSE,
     order |-> IF "order" \in DOMAIN data THEN data.order ELSE 0,
     priority |-> IF "priority" \in DOMAIN data THEN data.priority ELSE "normal",
     category |-> IF "category" \in DOMAIN data THEN data.category ELSE "general",
     createdAt |-> IF "createdAt" \in DOMAIN data THEN data.createdAt ELSE t,
     updatedAt |-> IF "updatedAt" \in DOMAIN data THEN data.updatedAt ELSE t]

App_Task_toggle(task, t) == [task EXCEPT !.completed = ~@, !.updatedAt = t]

App_Task_updateOrder(task, newOrder, t) == [task EXCEPT !.order = newOrder, !.updatedAt = t]

App_Task_toJSON(task) == [f \in App_TaskFields |-> task[f]]

(***************************************************************************)
(* app.js : AppState                                                       *)
(***************************************************************************)
App_defaultFilters == [showCompleted |-> TRUE, showActive |-> TRUE]

App_updateStats(s) ==
    LET total == Len(s.tasks)
        completed == Cardinality(SelectIdx(s.tasks, LAMBDA t : t.completed))
    IN  [s EXCEPT !.stats = [total |-> total, completed |-> completed,
                             active |-> total - completed,
                             completionRate |-> IF total > 0
                                                THEN MathRoundPct(completed, total)
                                                ELSE 0]]

\* new AppState()
App_AppState ==
    [tasks |-> <<>>, filters |-> App_defaultFilters,
     stats |-> [total |-> 0, completed |-> 0, active |-> 0, completionRate |-> 0]]

App_addTask(s, task, t) ==
    App_updateStats([s EXCEPT !.tasks = Append(@, App_Task_updateOrder(task, Len(s.tasks), t))])

App_reorderTasks(s, t) ==
    [s EXCEPT !.tasks = [i \in 1..Len(s.tasks) |-> App_Task_updateOrder(s.tasks[i], i - 1, t)]]

App_removeTask_noReorder(s, taskId, t) ==
    LET kept == SelectSeq(s.tasks, LAMBDA x : x.id # taskId)
    IN  IF Len(kept) < Len(s.tasks)
        THEN App_updateStats([s EXCEPT !.tasks = kept])
        ELSE s

App_removeTask(s, taskId, t) ==
    LET kept == SelectSeq(s.tasks, LAMBDA x : x.id # taskId)
    IN  IF Len(kept) < Len(s.tasks)
        THEN App_updateStats(App_reorderTasks([s EXCEPT !.tasks = kept], t))
        ELSE s

App_hasTask(s, taskId) == \E i \in 1..Len(s.tasks) : s.tasks[i].id = taskId

\* updateTask(taskId, {completed}) on a held task: toggles when the value differs
App_updateTask_completed(s, taskId, completed, t) ==
    LET index == Min(SelectIdx(s.tasks, LAMBDA x : x.id = taskId))
    IN  App_updateStats([s EXCEPT !.tasks[index] =
            IF @.completed # completed THEN App_Task_toggle(@, t) ELSE @])

\* updateTask(taskId, updates) raises when the task is held and updates is
\* null, carries an empty text (Task.updateText) or a negative order
\* (Task.updateOrder)
App_updateTask_throws(s, taskId, updates) ==
    /\ App_hasTask(s, taskId)
    /\ \/ updates = [null |-> TRUE]
       \/ "text" \in DOMAIN updates /\ updates.text = <<>>
       \/ "order" \in DOMAIN updates /\ updates.order < 0

\* the state after updateTask(taskId, updates): text, completed and order are
\* applied in this order and an exception leaves what was applied before it
App_updateTask(s, taskId, updates, t) ==
    IF ~App_hasTask(s, taskId) \/ updates = [null |-> TRUE]
          \/ ("text" \in DOMAIN updates /\ updates.text = <<>>)
    THEN s
    ELSE LET index == Min(SelectIdx(s.tasks, LAMBDA x : x.id = taskId))
             task0 == s.tasks[index]
             task1 == IF "text" \in DOMAIN updates
                      THEN [task0 EXCEPT !.text = Trim(updates.text), !.updatedAt = t]
                      ELSE task0
             task2 == IF "completed" \in DOMAIN updates /\ task1.completed # updates.completed
                      THEN App_Task_toggle(task1, t)
                      ELSE task1
         IN  IF "order" \in DOMAIN updates /\ updates.order < 0
             THEN [s EXCEPT !.tasks[index] = task2]
             ELSE App_updateStats([s EXCEPT !.tasks[index] =
                      IF "order" \in DOMAIN updates
                      THEN App_Task_updateOrder(task2, updates.order, t)
                      ELSE task2])

\* AppState.toJSON(): {tasks, filters, stats}
App_toJSON(s) ==
    [tasks |-> [i \in 1..Len(s.tasks) |-> App_Task_toJSON(s.tasks[i])],
     filters |-> s.filters,
     stats |-> s.stats]

\* AppState.fromJSON(data): data is optional (<<>> for null or undefined) and
\* then nothing is loaded; otherwise an object with a tasks array and filters
App_fromJSON(s, data, t) ==
    IF data = <<>> THEN s
    ELSE App_updateStats(
             [s EXCEPT !.tasks = [i \in 1..Len(data[1].tasks) |->
                                     App_Task(data[1].tasks[i], Cardinality(Ids) + i, t)],
                       !.filters = data[1].filters])

(***************************************************************************)
(* data-layer.js : StorageService                                          *)
(***************************************************************************)
DL_storageKey == "todoListApp_v1"

DL_maxStorageSize == 5 * 1024 * 1024

DL_dataVersion == "1.0.0"

\* A JSON text: unparseable, or the text of a value (<<>> is the JSON null)
JsonText(value) == [parses |-> TRUE, value |-> value]

Garbage == [parses |-> FALSE, value |-> <<>>]

DL_generateChecksum_ignoresCounter(data) == [sha256 |-> [data EXCEPT !.nextOrderId = <<0>>]]

\* SHA-256 of JSON.stringify(data) as a hex string: modelled as a
\* collision-free digest of the serialised value
DL_generateChecksum(data) == [sha256 |-> data]

\* UTF-8 size of a text; "B" is the 6 MiB block
RECURSIVE TextBytes(_)
TextBytes(text) ==
    IF text = <<>> THEN 0
    ELSE (IF Head(text) = "B" THEN 6 * 1024 * 1024 ELSE 1) + TextBytes(Tail(text))

\* new Blob([JSON.stringify(envelope)]).size: the fixed keys and punctuation
\* of the envelope and of each task, plus the task texts
DL_envelopeSize(envelope) ==
    LET tasks == envelope.state[1].tasks
    IN  300 + SeqSum([i \in 1..Len(tasks) |-> 200 + TextBytes(tasks[i].text)])

DL_saveState_snapshot_stampedFirst(s, t) ==
    [version |-> DL_dataVersion, timestamp |-> t,
     state |-> DL_toJSON(s), checksumInput |-> DL_toJSON([s EXCEPT !.lastSync = <<t + 1>>])]

\* the synchronous part of saveState after the availability probe: the two
\* state.toJSON() calls and the timestamp, taken before the await suspends
DL_saveState_snapshot(s, t) ==
    [version |-> DL_dataVersion, timestamp |-> t,
     state |-> DL_toJSON(s), checksumInput |-> DL_toJSON(s)]

DL_envelope_checksumOverAll(p) ==
    [version |-> <<p.version>>, timestamp |-> <<p.timestamp>>,
     state |-> <<p.state>>, checksum |-> <<DL_generateChecksum(p)>>]

DL_envelope(p) ==
    [version |-> <<p.version>>, timestamp |-> <<p.timestamp>>,
     state |-> <<p.state>>, checksum |-> <<DL_generateChecksum(p.checksumInput)>>]

\* handleStorageError(error): the window events dispatched
DL_handleStorageError(errorName) ==
    IF errorName = "QuotaExceededError"
    THEN {"storageError", "storageQuotaExceeded"}
    ELSE {"storageError"}

\* saveState after the await: size check, setItem, lastSync.
\* setItem is the outcome of localStorage.setItem: "ok", "QuotaExceededError"
\* or another error name.  Gives the record stored, the state, the value
\* returned and the events dispatched.
DL_saveState_resume_stampsAlways(s, stored, p, setItem, t) ==
    LET envelope == DL_envelope(p)
        failed == DL_envelopeSize(envelope) > DL_maxStorageSize \/ setItem # "ok"
    IN  [stored |-> IF failed THEN stored ELSE <<JsonText(<<envelope>>)>>,
         state |-> [s EXCEPT !.lastSync = <<t>>],
         ret |-> ~failed,
         why |-> IF failed THEN "failed" ELSE "saved",
         dispatched |-> IF failed THEN {"storageError"} ELSE {}]

DL_saveState_resume_serializesLate(s, stored, p, setItem, t) ==
    LET envelope == [DL_envelope(p) EXCEPT !.state = <<DL_toJSON(s)>>]
    IN  IF DL_envelopeSize(envelope) > DL_maxStorageSize
        THEN [stored |-> stored, state |-> s, ret |-> FALSE, why |-> "size",
              dispatched |-> DL_handleStorageError("Error")]
        ELSE IF setItem # "ok"
        THEN [stored |-> stored, state |-> s, ret |-> FALSE, why |-> setItem,
              dispatched |-> DL_handleStorageError(setItem)]
        ELSE [stored |-> <<JsonText(<<envelope>>)>>,
              state |-> [s EXCEPT !.lastSync = <<t>>],
              ret |-> TRUE, why |-> "saved", dispatched |-> {}]

DL_saveState_resume(s, stored, p, setItem, t) ==
    LET envelope == DL_envelope(p)
    IN  IF DL_envelopeSize(envelope) > DL_maxStorageSize
        THEN [stored |-> stored, state |-> s, ret |-> FALSE, why |-> "size",
              dispatched |-> DL_handleStorageError("Error")]
        ELSE IF setItem # "ok"
        THEN [stored |-> stored, state |-> s, ret |-> FALSE, why |-> setItem,
              dispatched |-> DL_handleStorageError(setItem)]
        ELSE [stored |-> <<JsonText(<<envelope>>)>>,
              state |-> [s EXCEPT !.lastSync = <<t>>],
              ret |-> TRUE, why |-> "saved", dispatched |-> {}]

DL_validateStoredData_noVersion(data) ==
    /\ data # <<>>
    /\ data[1].timestamp # <<>>
    /\ data[1].state # <<>>
    /\ data[1].state[1].tasksKind = "array"

\* validateStoredData(data): data is the optional parsed value
DL_validateStoredData(data) ==
    /\ data # <<>>
    /\ data[1].version # <<>>
    /\ data[1].timestamp # <<>>
    /\ data[1].state # <<>>
    /\ data[1].state[1].tasksKind = "array"

\* the events handleStorageError dispatches on window, for listeners
DL_WindowEvents == {"storageError", "storageQuotaExceeded"}

\* isStorageAvailable(): console.warn('localStorage not available:', error)
UnavailableWarning == "console.warn: localStorage not available"

\* what an operation reports when the probe of isStorageAvailable fails
DL_probeReport(available) == IF available THEN {} ELSE {UnavailableWarning}

\* console.warn('Data checksum mismatch, data may be corrupted')
ChecksumWarning == "console.warn: checksum mismatch"

DL_loadState_strict(stored, t) ==
    IF stored = <<>>
    THEN [state |-> DL_AppState, why |-> "empty", dispatched |-> {}]
    ELSE IF ~stored[1].parses \/ ~DL_validateStoredData(stored[1].value)
    THEN [state |-> DL_AppState, why |-> "corrupt", dispatched |-> {"storageError"}]
    ELSE IF stored[1].value[1].checksum # <<DL_generateChecksum(stored[1].value[1].state[1])>>
    THEN [state |-> DL_AppState, why |-> "corrupt", dispatched |-> {"storageError"}]
    ELSE [state |-> DL_fromJSON(DL_AppState, stored[1].value[1].state, t),
          why |-> "loaded", dispatched |-> {}]

\* loadState with storage available: stored is the optional raw record.
\* Gives the state returned, the branch taken and the events dispatched.
DL_loadState(stored, t) ==
    IF stored = <<>>
    THEN [state |-> DL_AppState, why |-> "empty", dispatched |-> {}]
    ELSE IF ~stored[1].parses
    THEN [state |-> DL_AppState, why |-> "corrupt",
          dispatched |-> DL_handleStorageError("SyntaxError")]
    ELSE IF ~DL_validateStoredData(stored[1].value)
    THEN [state |-> DL_AppState, why |-> "corrupt",
          dispatched |-> DL_handleStorageError("Error")]
    ELSE LET data == stored[1].value[1]
             mismatch == data.checksum # <<DL_generateChecksum(data.state[1])>>
             warned == IF mismatch THEN {ChecksumWarning} ELSE {}
         IN  IF DL_fromJSON_throws(data.state)
             THEN [state |-> DL_AppState, why |-> "importFailed",
                   dispatched |-> DL_handleStorageError("Error") \cup warned]
             ELSE [state |-> DL_fromJSON(DL_AppState, data.state, t),
                   why |-> IF mismatch THEN "checksumMismatch" ELSE "loaded",
                   dispatched |-> warned]

(***************************************************************************)
(* data-layer.js : ValidationService                                       *)
(* A candidate is {text, priority, category}, each key optional; text and   *)
(* category are texts, priority is a string.                                *)
(***************************************************************************)
\* the letters of a text are "a" (a letter), " " (white space), "<" and ">",
\* and "/" (a character outside rules.task.text.pattern)
DL_PatternChars == {"a", " ", "<", ">"}

\* rules.task.text.pattern.test(text)
DL_patternTest(text) == text # <<>> /\ \A i \in 1..Len(text) : text[i] \in DL_PatternChars

DL_priorityEnum == {"low", "medium", "high"}

\* a candidate with the given (optional) values
TaskData(text, priority, category) == [text |-> text, priority |-> priority, category |-> category]

\* a value is truthy: neither absent nor the empty string (a text, a string)
TruthyText(opt) == opt # <<>> /\ opt[1] # <<>>

TruthyString(opt) == opt # <<>> /\ opt[1] # ""

\* validateTask with the check of the trimmed length left out
DL_validateTask_untrimmed(taskData) ==
    LET text == Trim(taskData.text[1])
        textErrors ==
            IF ~TruthyText(taskData.text) THEN <<"Task text is required and must be a string">>
            ELSE IF Len(text) > 255 THEN <<"Task text cannot exceed 255 characters">>
            ELSE <<>>
        warnings ==
            IF TruthyText(taskData.text) /\ Len(text) > 0 /\ Len(text) <= 255 /\ ~DL_patternTest(text)
            THEN <<"Task text contains unusual characters">>
            ELSE <<>>
        priorityErrors ==
            IF TruthyString(taskData.priority) /\ taskData.priority[1] \notin DL_priorityEnum
            THEN <<"Priority must be one of: low, medium, high">>
            ELSE <<>>
        categoryErrors ==
            IF TruthyText(taskData.category) /\ Len(taskData.category[1]) > 50
            THEN <<"Category cannot exceed 50 characters">>
            ELSE <<>>
        errors == textErrors \o priorityErrors \o categoryErrors
    IN  [isValid |-> Len(errors) = 0, errors |-> errors, warnings |-> warnings]

\* validateTask(taskData): errors and warnings in the order they are pushed
DL_validateTask(taskData) ==
    LET text == Trim(taskData.text[1])
        textErrors ==
            IF ~TruthyText(taskData.text) THEN <<"Task text is required and must be a string">>
            ELSE IF Len(text) = 0 THEN <<"Task text cannot be empty">>
            ELSE IF Len(text) > 255 THEN <<"Task text cannot exceed 255 characters">>
            ELSE <<>>
        warnings ==
            IF TruthyText(taskData.text) /\ Len(text) > 0 /\ Len(text) <= 255 /\ ~DL_patternTest(text)
            THEN <<"Task text contains unusual characters">>
            ELSE <<>>
        priorityErrors ==
            IF TruthyString(taskData.priority) /\ taskData.priority[1] \notin DL_priorityEnum
            THEN <<"Priority must be one of: low, medium, high">>
            ELSE <<>>
        categoryErrors ==
            IF TruthyText(taskData.category) /\ Len(taskData.category[1]) > 50
            THEN <<"Category cannot exceed 50 characters">>
            ELSE <<>>
        errors == textErrors \o priorityErrors \o categoryErrors
    IN  [isValid |-> Len(errors) = 0, errors |-> errors, warnings |-> warnings]

\* a value of an update with its typeof
JsValue(type, shown) == [type |-> type, shown |-> shown]

DL_validFields == {"text", "completed", "priority", "category", "order"}

\* validateTaskUpdate(updates): updates holds the five known keys, each
\* optional, and the set of its other keys
DL_validateTaskUpdate(updates) ==
    LET fieldErrors ==
            IF updates.others \ DL_validFields # {} THEN <<"Invalid update fields">> ELSE <<>>
        textValidation == DL_validateTask(TaskData(updates.text, <<>>, <<>>))
        textErrors == IF updates.text # <<>> THEN textValidation.errors ELSE <<>>
        warnings == IF updates.text # <<>> THEN textValidation.warnings ELSE <<>>
        completedErrors ==
            IF updates.completed # <<>> /\ updates.completed[1].type # "boolean"
            THEN <<"Completed must be a boolean value">>
            ELSE <<>>
        priorityValidation == DL_validateTask(TaskData(<<>>, updates.priority, <<>>))
        priorityErrors == IF updates.priority # <<>> THEN priorityValidation.errors ELSE <<>>
        orderErrors ==
            IF updates.order # <<>> /\ updates.order[1].type # "number"
            THEN <<"Order must be a number">>
            ELSE <<>>
        errors == fieldErrors \o textErrors \o completedErrors \o priorityErrors \o orderErrors
    IN  [isValid |-> Len(errors) = 0, errors |-> errors, warnings |-> warnings]

\* text.replace(/\s+/g, ' '): every run of white space becomes one space
CollapseSpaces(text) ==
    LET kept == SelectSeq([i \in 1..Len(text) |-> i],
                          LAMBDA i : ~(IsSpace(text[i]) /\ i > 1 /\ IsSpace(text[i - 1])))
    IN  [k \in 1..Len(kept) |-> IF IsSpace(text[kept[k]]) THEN " " ELSE text[kept[k]]]

\* text.replace(/[<>]/g, '')
RemoveAngles(text) == SelectSeq(text, LAMBDA c : c \notin {"<", ">"})

\* String.prototype.substring(0, n)
Substring0(text, n) == SubSeq(text, 1, IF Len(text) < n THEN Len(text) ELSE n)

\* sanitizeText(text): trim, collapse, remove angle brackets, truncate
DL_sanitizeText(text) == Substring0(RemoveAngles(CollapseSpaces(Trim(text))), 255)

DL_sanitizePriority(priority) == IF priority \in DL_priorityEnum THEN priority ELSE "medium"

DL_sanitizeCategory(category) == Substring0(Trim(category), 50)

\* sanitizeTask(taskData): only the truthy keys are carried over
DL_sanitizeTask(taskData) ==
    TaskData(IF TruthyText(taskData.text) THEN <<DL_sanitizeText(taskData.text[1])>> ELSE <<>>,
             IF TruthyString(taskData.priority)
             THEN <<DL_sanitizePriority(taskData.priority[1])>> ELSE <<>>,
             IF TruthyText(taskData.category)
             THEN <<DL_sanitizeCategory(taskData.category[1])>> ELSE <<>>)

\* no candidate was handed in yet
NoValidation ==
    [op |-> "none", candidate |-> TaskData(<<>>, <<>>, <<>>), value |-> TaskData(<<>>, <<>>, <<>>),
     sanitized |-> 0, isValid |-> FALSE, errors |-> <<>>, warnings |-> <<>>]

(***************************************************************************)
(* app.js : StorageService and TodoApp                                     *)
(***************************************************************************)
App_storageKey == "todoApp_v1"

\* a key of the same origin that belongs to neither service
OtherKey == "theme"

Keys == {DL_storageKey, App_storageKey, OtherKey}

\* the browsing contexts (tabs) of the origin
Contexts == 1..2

\* the callers of the data-layer saveState (an auto-save and a manual save)
Savers == {1, 2}

\* new TodoApp(): state is null until init(); emitted holds the application
\* events of the last operation, created counts the ids generateId has made.
\* autoSaveTimer is null, the id of a timeout that is pending, or the id of
\* one that has fired; timers counts the timeouts of the tab that are pending.
TodoApp ==
    [isInitialized |-> FALSE, state |-> <<>>, autoSaveTimer |-> "null", timers |-> 0,
     undoStack |-> <<>>, redoStack |-> <<>>, emitted |-> {}, created |-> 0]

TodoApp_autoSave_noClear(a) ==
    [a EXCEPT !.autoSaveTimer = "pending", !.timers = @ + 1]

\* TodoApp.autoSave() with config.autoSave: clearTimeout(this.autoSaveTimer),
\* which cancels it when it is pending, then a new timeout
TodoApp_autoSave(a) ==
    [a EXCEPT !.autoSaveTimer = "pending",
              !.timers = (IF a.autoSaveTimer = "pending" THEN @ - 1 ELSE @) + 1]

\* config.maxUndoSteps
App_maxUndoSteps == 50

\* StorageService.maxStorageSize as TodoApp configures it
App_maxStorageSize == 5 * 1024 * 1024

\* the value another script of the origin keeps under its own key
OtherValues == {"dark"}

\* ValidationService.validateTask({text}).isValid, text a non-empty string
App_validateTask(text) == Trim(text) # <<>> /\ Len(text) <= 500

\* text.replace(/<[^>]*>/g, ''): every '<' that has a '>' after it is removed
\* together with everything up to the first such '>'
RECURSIVE StripTags(_)
StripTags(text) ==
    IF text = <<>> THEN <<>>
    ELSE LET closers == {j \in 2..Len(text) : text[j] = ">"}
         IN  IF Head(text) = "<" /\ closers # {}
             THEN StripTags(SubSeq(text, Min(closers) + 1, Len(text)))
             ELSE <<Head(text)>> \o StripTags(Tail(text))

\* ValidationService.sanitizeText(text), text a non-empty string.  The texts
\* of the model cannot spell 'javascript:' or an on...= attribute, so those
\* two replacements leave them as they are.
App_sanitizeText(text) ==
    LET sanitized == Trim(StripTags(text))
    IN  SubSeq(sanitized, 1, Min({Len(sanitized), 500}))

\* an entry of the undo stack
UndoOperation(action, taskId, taskData, previousState, t) ==
    [action |-> action, taskId |-> taskId, taskData |-> taskData,
     previousState |-> previousState, timestamp |-> t]

TodoApp_addToUndoStack(a, operation) ==
    LET pushed == Append(a.undoStack, operation)
    IN  [a EXCEPT !.undoStack = IF Len(pushed) > App_maxUndoSteps THEN Tail(pushed) ELSE pushed]

\* TodoApp.addTask(text): the application after the call, and the value returned
TodoApp_addTask(a, text, freshId, t) ==
    LET sanitized == [text |-> App_sanitizeText(text), completed |-> FALSE,
                      priority |-> "normal", category |-> "general"]
        s1 == App_addTask(a.state[1], App_Task(sanitized, freshId, t), t)
        task == s1.tasks[Len(s1.tasks)]
    IN  IF text = <<>>
        THEN [app |-> [a EXCEPT !.emitted = {"app:error"}], ret |-> <<>>]
        ELSE IF ~App_validateTask(text)
        THEN [app |-> [a EXCEPT !.emitted = {"validation:error"}], ret |-> <<>>]
        ELSE IF App_Task_throws(sanitized)
        THEN [app |-> [a EXCEPT !.emitted = {"app:error"}], ret |-> <<>>]
        ELSE [app |-> [TodoApp_addToUndoStack(a,
                          UndoOperation("create", task.id, <<App_Task_toJSON(task)>>, <<>>, t))
                       EXCEPT !.state = <<s1>>,
                              !.redoStack = <<>>,
                              !.autoSaveTimer = TodoApp_autoSave(a).autoSaveTimer,
                              !.timers = TodoApp_autoSave(a).timers,
                              !.created = @ + 1,
                              !.emitted = {"task:created", "state:changed"}],
              ret |-> <<task.id>>]

\* the task of a state with the given id (Array.prototype.find)
App_findTask(s, taskId) == s.tasks[Min(SelectIdx(s.tasks, LAMBDA x : x.id = taskId))]

\* TodoApp.toggleTask(taskId)
TodoApp_toggleTask(a, taskId, t) ==
    IF ~App_hasTask(a.state[1], taskId)
    THEN [app |-> [a EXCEPT !.emitted = {"app:error"}], ret |-> FALSE]
    ELSE LET task == App_findTask(a.state[1], taskId)
         IN  [app |-> [TodoApp_addToUndoStack(a,
                          UndoOperation("toggle", taskId, <<>>, <<App_Task_toJSON(task)>>, t))
                       EXCEPT !.state = <<App_updateTask_completed(a.state[1], taskId,
                                                                   ~task.completed, t)>>,
                              !.redoStack = <<>>,
                              !.autoSaveTimer = TodoApp_autoSave(a).autoSaveTimer,
                              !.timers = TodoApp_autoSave(a).timers,
                              !.emitted = {"task:updated", "state:changed"}],
              ret |-> TRUE]

\* TodoApp.deleteTask(taskId)
TodoApp_deleteTask(a, taskId, t) ==
    IF ~App_hasTask(a.state[1], taskId)
    THEN [app |-> [a EXCEPT !.emitted = {"app:error"}], ret |-> FALSE]
    ELSE LET task == App_findTask(a.state[1], taskId)
         IN  [app |-> [TodoApp_addToUndoStack(a,
                          UndoOperation("delete", taskId, <<App_Task_toJSON(task)>>, <<>>, t))
                       EXCEPT !.state = <<App_removeTask(a.state[1], taskId, t)>>,
                              !.redoStack = <<>>,
                              !.autoSaveTimer = TodoApp_autoSave(a).autoSaveTimer,
                              !.timers = TodoApp_autoSave(a).timers,
                              !.emitted = {"task:deleted", "state:changed"}],
              ret |-> TRUE]

\* AppState.clear()
App_clear(s) == App_updateStats([s EXCEPT !.tasks = <<>>, !.filters = App_defaultFilters])

\* AppState.createSnapshot(): copies of the tasks (toJSON), filters and stats
App_createSnapshot(s) ==
    [tasks |-> [i \in 1..Len(s.tasks) |-> App_Task_toJSON(s.tasks[i])],
     filters |-> s.filters,
     stats |-> s.stats]

\* AppState.restoreSnapshot(snapshot), snapshot made by createSnapshot: the
\* tasks are rebuilt with Task.fromJSON, filters and stats are copied
App_restoreSnapshot(s, snapshot, t) ==
    [s EXCEPT !.tasks = [i \in 1..Len(snapshot.tasks) |-> App_Task(snapshot.tasks[i], 0, t)],
              !.filters = snapshot.filters,
              !.stats = snapshot.stats]

\* restoreSnapshot(snapshot) raises when Task.fromJSON raises for an entry,
\* before anything is assigned
App_restoreSnapshot_throws(snapshot) ==
    \E i \in 1..Len(snapshot.tasks) : App_Task_throws(snapshot.tasks[i])

\* the task id of an undo entry that has none ('clear')
NoTaskId == 0

\* TodoApp.clearAllTasks()
TodoApp_clearAllTasks(a, t) ==
    IF a.state[1].tasks = <<>>
    THEN [app |-> [a EXCEPT !.emitted = {}], ret |-> FALSE]
    ELSE [app |-> [TodoApp_addToUndoStack(a,
                      UndoOperation("clear", NoTaskId, <<>>,
                                    <<App_createSnapshot(a.state[1])>>, t))
                   EXCEPT !.state = <<App_clear(a.state[1])>>,
                          !.redoStack = <<>>,
                          !.emitted = {"tasks:cleared", "state:changed"}],
          ret |-> TRUE]

\* TodoApp.updateTaskText(taskId, newText)
TodoApp_updateTaskText(a, taskId, newText, t) ==
    IF newText = <<>> \/ ~App_hasTask(a.state[1], taskId)
    THEN [app |-> [a EXCEPT !.emitted = {"app:error"}], ret |-> FALSE]
    ELSE IF ~App_validateTask(newText)
    THEN [app |-> [a EXCEPT !.emitted = {"validation:error"}], ret |-> FALSE]
    ELSE IF App_sanitizeText(newText) = <<>>
    THEN [app |-> [a EXCEPT !.emitted = {"app:error"}], ret |-> FALSE]
    ELSE LET task == App_findTask(a.state[1], taskId)
         IN  [app |-> [TodoApp_addToUndoStack(a,
                          UndoOperation("update", taskId, <<>>, <<App_Task_toJSON(task)>>, t))
                       EXCEPT !.state = <<App_updateTask(a.state[1], taskId,
                                             [text |-> App_sanitizeText(newText)], t)>>,
                              !.redoStack = <<>>,
                              !.autoSaveTimer = TodoApp_autoSave(a).autoSaveTimer,
                              !.timers = TodoApp_autoSave(a).timers,
                              !.emitted = {"task:updated", "state:changed"}],
              ret |-> TRUE]

\* the part of undo() that depends on the entry popped: deleteTask for a
\* 'create', state.updateTask for a 'toggle' or an 'update', Task.fromJSON and
\* state.addTask for a 'delete', restoreSnapshot for a 'clear'
TodoApp_undoOperation(a, operation, t) ==
    CASE operation.action = "create" -> TodoApp_deleteTask(a, operation.taskId, t).app
      [] operation.action = "toggle" ->
            [a EXCEPT !.state = <<App_updateTask(a.state[1], operation.taskId,
                                     [completed |-> operation.previousState[1].completed], t)>>,
                      !.emitted = {}]
      [] operation.action = "update" ->
            [a EXCEPT !.state = <<App_updateTask(a.state[1], operation.taskId,
                                     [text |-> operation.previousState[1].text], t)>>,
                      !.emitted = {}]
      [] operation.action = "delete" ->
            [a EXCEPT !.state = <<App_addTask(a.state[1],
                                              App_Task(operation.taskData[1], 0, t), t)>>,
                      !.emitted = {}]
      [] operation.action = "clear" ->
            [a EXCEPT !.state = <<App_restoreSnapshot(a.state[1],
                                                      operation.previousState[1], t)>>,
                      !.emitted = {}]

\* TodoApp.undo(): pops the entry, reverts it, pushes it on the redo stack
TodoApp_undo(a, t) ==
    IF a.undoStack = <<>>
    THEN [app |-> [a EXCEPT !.emitted = {}], ret |-> FALSE]
    ELSE LET operation == a.undoStack[Len(a.undoStack)]
             popped == [a EXCEPT !.undoStack = SubSeq(@, 1, Len(@) - 1)]
             undone == TodoApp_undoOperation(popped, operation, t)
         IN  [app |-> [undone EXCEPT !.redoStack = Append(@, operation),
                                     !.emitted = @ \cup {"undo:performed", "state:changed"}],
              ret |-> TRUE]

\* the part of redo() that depends on the entry popped: Task.fromJSON and
\* state.addTask for a 'create', toggleTask, updateTaskText and deleteTask for
\* a 'toggle', an 'update' and a 'delete', state.clear for a 'clear'
TodoApp_redoOperation(a, operation, t) ==
    CASE operation.action = "create" ->
            [a EXCEPT !.state = <<App_addTask(a.state[1],
                                              App_Task(operation.taskData[1], 0, t), t)>>,
                      !.emitted = {}]
      [] operation.action = "toggle" -> TodoApp_toggleTask(a, operation.taskId, t).app
      [] operation.action = "update" ->
            TodoApp_updateTaskText(a, operation.taskId, operation.previousState[1].text, t).app
      [] operation.action = "delete" -> TodoApp_deleteTask(a, operation.taskId, t).app
      [] operation.action = "clear" ->
            [a EXCEPT !.state = <<App_clear(a.state[1])>>, !.emitted = {}]

TodoApp_redo(a, t) ==
    IF a.redoStack = <<>>
    THEN [app |-> [a EXCEPT !.emitted = {}], ret |-> FALSE]
    ELSE LET operation == a.redoStack[Len(a.redoStack)]
             popped == [a EXCEPT !.redoStack = SubSeq(@, 1, Len(@) - 1)]
             redone == TodoApp_redoOperation(popped, operation, t)
         IN  [app |-> [redone EXCEPT !.undoStack = Append(@, operation),
                                     !.emitted = @ \cup {"redo:performed", "state:changed"}],
              ret |-> TRUE]

\* json.length of JSON.stringify(state.toJSON()): keys and punctuation of the
\* state and of each task, plus the task texts
App_jsonLength(data) ==
    300 + SeqSum([i \in 1..Len(data.tasks) |-> 200 + TextBytes(data.tasks[i].text)])

\* app.js StorageService.saveState(state): the record afterwards, whether the
\* call rejects, and the window events dispatched
App_saveState(s, stored, available, setItem) ==
    LET data == App_toJSON(s)
        failed(why) == [stored |-> stored, threw |-> TRUE, why |-> why,
                        dispatched |-> {"storageError"}]
    IN  IF ~available THEN failed("unavailable")
        ELSE IF App_jsonLength(data) > App_maxStorageSize THEN failed("size")
        ELSE IF setItem # "ok" THEN failed("setItem")
        ELSE [stored |-> <<JsonText(<<data>>)>>, threw |-> FALSE, why |-> "saved",
              dispatched |-> {"storageSync"}]

\* app.js StorageService.loadState()
App_loadState(stored, available, t) ==
    LET failed == [state |-> App_AppState, threw |-> TRUE, dispatched |-> {"storageError"}]
        loadedOk(s) == [state |-> s, threw |-> FALSE, dispatched |-> {}]
    IN  IF ~available THEN failed
        ELSE IF stored = <<>> THEN loadedOk(App_AppState)
        ELSE IF ~stored[1].parses THEN failed
        ELSE IF stored[1].value = <<>> THEN loadedOk(App_AppState)
        ELSE IF \E i \in 1..Len(stored[1].value[1].tasks) :
                    App_Task_throws(stored[1].value[1].tasks[i])
        THEN failed
        ELSE loadedOk(App_fromJSON(App_AppState, stored[1].value, t))

\* TodoApp.init() on an application that is not initialized: dependencies,
\* listeners, loadApplicationData (a failed load falls back to a new AppState)
TodoApp_init_rethrows(a, stored, available, t) ==
    LET r == App_loadState(stored, available, t)
    IN  IF r.threw
        THEN [a EXCEPT !.state = <<App_AppState>>, !.emitted = {"app:error"}]
        ELSE [a EXCEPT !.state = <<r.state>>, !.isInitialized = TRUE,
                       !.emitted = {"initialized"}]

\* TodoApp.init(): loadApplicationData catches what loadState raises and
\* starts from new AppState()
TodoApp_init(a, stored, available, t) ==
    LET r == App_loadState(stored, available, t)
    IN  [a EXCEPT !.state = <<r.state>>,
                  !.isInitialized = TRUE,
                  !.emitted = {"initialized"} \cup
                              (IF r.threw THEN {"storage:error"} ELSE {})]

\* the body of the try block of handleStorageEvent, for the text of a new value
TodoApp_syncFrom(a, raw, t) ==
    IF ~raw.parses \/ raw.value = <<>>
    THEN [a EXCEPT !.emitted = {}]
    ELSE LET newData == raw.value[1]
             newState == App_fromJSON(App_AppState,
                             IF "state" \in DOMAIN newData THEN <<newData.state>> ELSE <<>>, t)
         IN  IF App_toJSON(a.state[1]) # App_toJSON(newState)
             THEN [a EXCEPT !.state = <<newState>>, !.emitted = {"storage:sync"}]
             ELSE [a EXCEPT !.emitted = {}]

TodoApp_handleStorageEvent_anyKey(a, event, t) ==
    IF event.newValue # <<>>
    THEN TodoApp_syncFrom(a, event.newValue[1], t)
    ELSE [a EXCEPT !.emitted = {}]

\* TodoApp.handleStorageEvent(event)
TodoApp_handleStorageEvent(a, event, t) ==
    IF event.key = App_storageKey /\ event.newValue # <<>>
    THEN TodoApp_syncFrom(a, event.newValue[1], t)
    ELSE [a EXCEPT !.emitted = {}]

(***************************************************************************)
(* Initial state: a fresh data-layer AppState, empty storage, and a        *)
(* constructed TodoApp in every context.                                   *)
(***************************************************************************)
\* everything but the ValidationService
InitServices ==
    /\ state = DL_AppState
    /\ localStorage = [k \in Keys |-> <<>>]
    /\ storageAvailable = TRUE
    /\ pendingSaves = [k \in Savers |-> <<>>]
    /\ dispatched = {}
    /\ tampering = {}
    /\ backup = [exported |-> <<>>, imported |-> <<>>]
    /\ heldSnapshot = <<>>
    /\ loaded = <<>>
    /\ result = Outcome("new", TRUE, FALSE, "")
    /\ now = 0
    /\ appState = App_AppState
    /\ app = [c \in Contexts |-> TodoApp]
    /\ eventQueue = [c \in Contexts |-> <<>>]

Init ==
    /\ InitServices
    /\ validation = NoValidation

(***************************************************************************)
(* Actions on the data-layer AppState                                      *)
(***************************************************************************)
DL_heldIds(s) == {s.tasks[i].id : i \in 1..Len(s.tasks)}

\* generateId(): an id no held task has
DL_generateId(s) == Min(Ids \ DL_heldIds(s))

\* state.addTask(new Task({text, completed}))
DLAddTask(texts, completeds, cap) ==
    /\ Len(state.tasks) < cap
    /\ state.nextOrderId <= MaxTasks
    /\ Ids \ DL_heldIds(state) # {}
    /\ \E text \in texts, completed \in completeds :
          state' = DL_addTask(state, DL_Task(DL_generateId(state), text, completed, now))
    /\ result' = Outcome("addTask", TRUE, FALSE, "")
    /\ dispatched' = {}
    /\ loaded' = <<>>
    /\ UNCHANGED <<localStorage, storageAvailable, pendingSaves, now, appVars, tampering>>

\* state.removeTask(taskId), for held and for unknown ids
DLRemoveTask ==
    /\ \E taskId \in Ids :
          /\ state' = DL_removeTask(state, taskId)
          /\ result' = Outcome("removeTask", DL_findIndex(state, taskId) # 0, FALSE,
                               ToString(taskId))
    /\ dispatched' = {}
    /\ loaded' = <<>>
    /\ UNCHANGED <<localStorage, storageAvailable, pendingSaves, now, appVars, tampering>>

\* the update objects callers pass: completion, an order, a key outside
\* the whitelist, and null
DL_Updates ==
    {[completed |-> TRUE], [completed |-> FALSE], [order |-> 0], [id |-> 1], NullEntry}

\* state.updateTask(taskId, updates)
DLUpdateTask(updatesSet) ==
    /\ \E taskId \in Ids, updates \in updatesSet :
          /\ state' = DL_updateTask(state, taskId, updates, now)
          /\ result' = Outcome("updateTask",
                               DL_findIndex(state, taskId) # 0
                                  /\ ~DL_updateTask_throws(state, taskId, updates),
                               DL_updateTask_throws(state, taskId, updates),
                               ToString(taskId))
    /\ dispatched' = {}
    /\ loaded' = <<>>
    /\ UNCHANGED <<localStorage, storageAvailable, pendingSaves, now, appVars, tampering>>

\* plain task objects as a caller or a stored record supplies them
DL_plainTask(id, completed, order) ==
    [id |-> id, text |-> <<"a">>, completed |-> completed, priority |-> "medium",
     category |-> "general", createdAt |-> 0, updatedAt |-> 0, order |-> order]

DL_TaskLists ==
    {<<>>,
     <<DL_plainTask(1, TRUE, 0)>>,
     <<DL_plainTask(1, FALSE, 0), DL_plainTask(2, TRUE, 1)>>,
     <<DL_plainTask(2, TRUE, 1), DL_plainTask(1, TRUE, 0)>>}

\* state.setTasks(tasks)
DLSetTasks ==
    /\ \E tasks \in DL_TaskLists : state' = DL_setTasks(state, tasks, now)
    /\ result' = Outcome("setTasks", TRUE, FALSE, "")
    /\ dispatched' = {}
    /\ loaded' = <<>>
    /\ UNCHANGED <<localStorage, storageAvailable, pendingSaves, now, appVars, tampering>>

\* the arguments of fromJSON: null, serialised states, and malformed objects
DL_StateData ==
    {<<>>}
    \cup {<<[tasksKind |-> "array", tasks |-> l, nextOrderId |-> <<Len(l)>>,
             lastSync |-> <<>>, filters |-> <<DL_defaultFilters>>]>> : l \in DL_TaskLists}
    \cup {<<[tasksKind |-> "absent", tasks |-> <<>>, nextOrderId |-> <<1>>,
             lastSync |-> <<0>>, filters |-> <<>>]>>,
          <<[tasksKind |-> "other", tasks |-> <<>>, nextOrderId |-> <<1>>,
             lastSync |-> <<0>>, filters |-> <<>>]>>,
          <<[tasksKind |-> "array", tasks |-> <<DL_plainTask(1, TRUE, 0), NullEntry>>,
             nextOrderId |-> <<2>>, lastSync |-> <<>>, filters |-> <<>>]>>}

\* state.fromJSON(data)
DLFromJSON(datas) ==
    /\ \E data \in datas :
          /\ state' = DL_fromJSON(state, data, now)
          /\ result' = Outcome("fromJSON", ~DL_fromJSON_throws(data), FALSE, "")
    /\ dispatched' = {}
    /\ loaded' = <<>>
    /\ UNCHANGED <<localStorage, storageAvailable, pendingSaves, now, appVars, tampering>>

(***************************************************************************)
(* Actions of the data-layer StorageService on the live AppState.          *)
(* dispatched and loaded describe the last operation only.                 *)
(***************************************************************************)
DL_stored == localStorage[DL_storageKey]

\* saveState(state) by caller k up to its await: the availability probe, the
\* snapshot and the start of the checksum computation
DLSaveState(k) ==
    /\ pendingSaves[k] = <<>>
    /\ IF ~storageAvailable
       THEN /\ result' = Outcome("saveState", FALSE, FALSE, "unavailable")
            /\ UNCHANGED pendingSaves
       ELSE /\ pendingSaves' = [pendingSaves EXCEPT ![k] = <<DL_saveState_snapshot(state, now)>>]
            /\ result' = Outcome("saveState.await", TRUE, FALSE, "")
    /\ dispatched' = DL_probeReport(storageAvailable)
    /\ loaded' = <<>>
    /\ UNCHANGED <<state, localStorage, storageAvailable, now, appVars, tampering>>

\* what localStorage.setItem can do: succeed or raise QuotaExceededError
\* when storage is usable, raise SecurityError when it is not
SetItemOutcomes == IF storageAvailable THEN {"ok", "QuotaExceededError"} ELSE {"SecurityError"}

\* the rest of caller k's saveState once the checksum is computed
DLSaveStateResume(k) ==
    /\ pendingSaves[k] # <<>>
    /\ \E setItem \in SetItemOutcomes :
          LET r == DL_saveState_resume(state, DL_stored, pendingSaves[k][1], setItem, now)
          IN  /\ localStorage' = [localStorage EXCEPT ![DL_storageKey] = r.stored]
              /\ state' = r.state
              /\ result' = Outcome("saveState", r.ret, FALSE, r.why)
              /\ dispatched' = r.dispatched
              /\ tampering' = IF r.ret THEN {} ELSE tampering
    /\ pendingSaves' = [pendingSaves EXCEPT ![k] = <<>>]
    /\ loaded' = <<>>
    /\ UNCHANGED <<storageAvailable, now, appVars>>

\* loadState()
DLLoadState ==
    /\ IF ~storageAvailable
       THEN /\ loaded' = <<DL_AppState>>
            /\ result' = Outcome("loadState", TRUE, FALSE, "unavailable")
            /\ dispatched' = DL_probeReport(storageAvailable)
       ELSE LET r == DL_loadState(DL_stored, now)
            IN  /\ loaded' = <<r.state>>
                /\ result' = Outcome("loadState", TRUE, FALSE, r.why)
                /\ dispatched' = r.dispatched
    /\ UNCHANGED <<state, localStorage, storageAvailable, pendingSaves, now, appVars, tampering>>

\* clearStorage()
DLClearStorage ==
    /\ IF ~storageAvailable
       THEN /\ result' = Outcome("clearStorage", FALSE, FALSE, "unavailable")
            /\ UNCHANGED localStorage
       ELSE /\ localStorage' = [localStorage EXCEPT ![DL_storageKey] = <<>>]
            /\ result' = Outcome("clearStorage", TRUE, FALSE, "cleared")
    /\ tampering' = IF storageAvailable THEN {} ELSE tampering
    /\ dispatched' = DL_probeReport(storageAvailable)
    /\ loaded' = <<>>
    /\ UNCHANGED <<state, storageAvailable, pendingSaves, now, appVars>>

\* exportData(): raises when storage is unavailable or holds no record
ExportDataCall ==
    /\ result' = IF ~storageAvailable
                 THEN Outcome("exportData", FALSE, TRUE, "unavailable")
                 ELSE IF DL_stored = <<>>
                 THEN Outcome("exportData", FALSE, TRUE, "noData")
                 ELSE Outcome("exportData", TRUE, FALSE, "exported")
    /\ dispatched' = DL_probeReport(storageAvailable)
    /\ loaded' = <<>>
    /\ UNCHANGED <<state, localStorage, storageAvailable, pendingSaves, now, tampering,
                   appState, app, eventQueue, validation, heldSnapshot>>

DLExportData == ExportDataCall /\ UNCHANGED backup

\* an envelope as a backup file holds it
DL_backup(tasks) ==
    [version |-> <<DL_dataVersion>>, timestamp |-> <<0>>,
     state |-> <<DL_toJSON([DL_AppState EXCEPT !.tasks = tasks, !.nextOrderId = Len(tasks)])>>,
     checksum |-> <<DL_generateChecksum(
                       DL_toJSON([DL_AppState EXCEPT !.tasks = tasks, !.nextOrderId = Len(tasks)]))>>]

\* the arguments of importData: an unparseable text, the text "null", a
\* backup, and a backup that lost its version
DL_ImportInputs ==
    {Garbage, JsonText(<<>>),
     JsonText(<<DL_backup(<<DL_plainTask(1, TRUE, 0)>>)>>),
     JsonText(<<[DL_backup(<<DL_plainTask(1, TRUE, 0)>>) EXCEPT !.version = <<>>]>>)}

\* importData(jsonData) with storage available: the record stored afterwards
\* and the outcome.  It raises when the text does not parse or validate and
\* when setItem raises; what it stores is JSON.stringify of the parsed value.
DL_importData_commitsFirst(stored, jsonData, setItem) ==
    IF ~jsonData.parses
    THEN [stored |-> stored, ret |-> FALSE, threw |-> TRUE, why |-> "invalid"]
    ELSE IF setItem # "ok"
    THEN [stored |-> stored, ret |-> FALSE, threw |-> TRUE, why |-> "setItem"]
    ELSE IF ~DL_validateStoredData(jsonData.value)
    THEN [stored |-> <<JsonText(jsonData.value)>>, ret |-> FALSE, threw |-> TRUE,
          why |-> "invalid"]
    ELSE [stored |-> <<JsonText(jsonData.value)>>, ret |-> TRUE, threw |-> FALSE,
          why |-> "imported"]

DL_importData(stored, jsonData, setItem) ==
    IF ~jsonData.parses \/ ~DL_validateStoredData(jsonData.value)
    THEN [stored |-> stored, ret |-> FALSE, threw |-> TRUE, why |-> "invalid"]
    ELSE IF setItem # "ok"
    THEN [stored |-> stored, ret |-> FALSE, threw |-> TRUE, why |-> "setItem"]
    ELSE [stored |-> <<JsonText(jsonData.value)>>, ret |-> TRUE, threw |-> FALSE,
          why |-> "imported"]

\* importData(jsonData): raises at once when storage is unavailable
ImportDataCall(jsonData) ==
    /\ \E setItem \in SetItemOutcomes :
          IF ~storageAvailable
          THEN /\ result' = Outcome("importData", FALSE, TRUE, "unavailable")
               /\ UNCHANGED localStorage
          ELSE LET r == DL_importData(DL_stored, jsonData, setItem)
               IN  /\ result' = Outcome("importData", r.ret, r.threw, r.why)
                   /\ localStorage' = [localStorage EXCEPT ![DL_storageKey] = r.stored]
    /\ tampering' = IF result'.ret THEN {} ELSE tampering
    /\ dispatched' = DL_probeReport(storageAvailable)
    /\ loaded' = <<>>
    /\ UNCHANGED <<state, storageAvailable, pendingSaves, now,
                   appState, app, eventQueue, validation, heldSnapshot>>

DLImportData ==
    \E jsonData \in DL_ImportInputs : ImportDataCall(jsonData) /\ UNCHANGED backup

\* The record as another script of the origin, or the user, can leave it:
\* an unparseable text, the text "null", or the stored envelope with a
\* field removed or with `tasks` no longer an array
TamperKinds == {"garbage", "null", "noVersion", "noTimestamp", "noState", "tasksNotArray"}

\* alterations that leave an envelope structurally valid: another checksum,
\* version or timestamp, or a changed state payload (the first task's
\* completed flag flipped, the counter raised)
IntegrityTamperKinds == {"checksum", "version", "timestamp", "stateCompleted", "stateCounter"}

StateTamperKinds == {"stateCompleted", "stateCounter"}

\* alterations of a stored task that leave the envelope structurally valid:
\* the text of the first task made empty
TaskTamperKinds == {"taskText"}

\* a digest that differs from the given one
OtherChecksum(checksum) == [sha256 |-> [checksum.sha256 EXCEPT !.nextOrderId = <<-1>>]]

Tampered(raw, kind) ==
    CASE kind = "garbage" -> Garbage
      [] kind = "null" -> JsonText(<<>>)
      [] kind = "noVersion" -> JsonText(<<[raw.value[1] EXCEPT !.version = <<>>]>>)
      [] kind = "noTimestamp" -> JsonText(<<[raw.value[1] EXCEPT !.timestamp = <<>>]>>)
      [] kind = "noState" -> JsonText(<<[raw.value[1] EXCEPT !.state = <<>>]>>)
      [] kind = "tasksNotArray" ->
            JsonText(<<[raw.value[1] EXCEPT !.state[1].tasksKind = "other",
                                            !.state[1].tasks = <<>>]>>)
      [] kind = "checksum" ->
            JsonText(<<[raw.value[1] EXCEPT !.checksum = <<OtherChecksum(@[1])>>]>>)
      [] kind = "version" -> JsonText(<<[raw.value[1] EXCEPT !.version = <<"0.9.0">>]>>)
      [] kind = "timestamp" -> JsonText(<<[raw.value[1] EXCEPT !.timestamp = <<@[1] + 1>>]>>)
      [] kind = "stateCompleted" ->
            JsonText(<<[raw.value[1] EXCEPT !.state[1].tasks[1].completed = ~@]>>)
      [] kind = "stateCounter" ->
            JsonText(<<[raw.value[1] EXCEPT !.state[1].nextOrderId = <<@[1] + 1>>]>>)
      [] kind = "taskText" ->
            JsonText(<<[raw.value[1] EXCEPT !.state[1].tasks[1].text = <<>>]>>)

\* the stored record is altered outside the service, each field once
TamperRecord(kinds) ==
    /\ DL_stored # <<>>
    /\ DL_stored[1].parses /\ DL_validateStoredData(DL_stored[1].value)
    /\ \E kind \in kinds \ tampering :
          /\ kind \in {"stateCompleted", "taskText"}
                => DL_stored[1].value[1].state[1].tasks # <<>>
          /\ kind = "checksum" => DL_stored[1].value[1].checksum # <<>>
          /\ localStorage' = [localStorage EXCEPT
                                 ![DL_storageKey] = <<Tampered(DL_stored[1], kind)>>]
          /\ tampering' = tampering \cup {kind}
    /\ result' = Outcome("tamper", TRUE, FALSE, "")
    /\ dispatched' = {}
    /\ loaded' = <<>>
    /\ UNCHANGED <<state, storageAvailable, pendingSaves, now, appVars>>

\* localStorage becomes unusable (disabled, sandboxed, full) or usable again
SetStorageAvailable ==
    /\ storageAvailable' = ~storageAvailable
    /\ result' = Outcome("environment", TRUE, FALSE, "")
    /\ dispatched' = {}
    /\ loaded' = <<>>
    /\ UNCHANGED <<state, localStorage, pendingSaves, now, appVars, tampering>>

(***************************************************************************)
(* Actions on the standalone app.js AppState                               *)
(***************************************************************************)
App_heldIds(s) == {s.tasks[i].id : i \in 1..Len(s.tasks)}

\* appState.addTask(new Task({text}))
AppStateAddTask(completeds, cap) ==
    /\ Len(appState.tasks) < cap
    /\ Ids \ App_heldIds(appState) # {}
    /\ \E completed \in completeds :
          appState' = App_addTask(appState,
                          App_Task([text |-> <<"a">>, completed |-> completed],
                                   Min(Ids \ App_heldIds(appState)), now), now)
    /\ result' = Outcome("App.addTask", TRUE, FALSE, "")
    /\ UNCHANGED <<state, localStorage, storageAvailable, pendingSaves, dispatched,
                   tampering, validation, backup, heldSnapshot, loaded, now, app, eventQueue>>

\* appState.removeTask(taskId), for held and for unknown ids
AppStateRemoveTask ==
    /\ \E taskId \in Ids :
          /\ appState' = App_removeTask(appState, taskId, now)
          /\ result' = Outcome("App.removeTask", App_hasTask(appState, taskId), FALSE,
                               ToString(taskId))
    /\ UNCHANGED <<state, localStorage, storageAvailable, pendingSaves, dispatched,
                   tampering, validation, backup, heldSnapshot, loaded, now, app, eventQueue>>

\* the update objects callers pass to the app.js updateTask
App_Updates ==
    {[completed |-> TRUE], [completed |-> FALSE], [order |-> 0], [order |-> -1], NullEntry}

\* appState.updateTask(taskId, updates), for held and for unknown ids
AppStateUpdateTask(updatesSet) ==
    /\ \E taskId \in Ids, updates \in updatesSet :
          /\ appState' = App_updateTask(appState, taskId, updates, now)
          /\ result' = Outcome("App.updateTask",
                               App_hasTask(appState, taskId)
                                  /\ ~App_updateTask_throws(appState, taskId, updates),
                               App_updateTask_throws(appState, taskId, updates),
                               ToString(taskId))
    /\ UNCHANGED <<state, localStorage, storageAvailable, pendingSaves, dispatched,
                   tampering, validation, backup, heldSnapshot, loaded, now, app, eventQueue>>

(***************************************************************************)
(* SpecOrder: sequences of addTask and removeTask on both AppState classes, *)
(* starting from the empty states.                                          *)
(***************************************************************************)
NextOrder ==
    \/ DLAddTask({<<"a">>}, {FALSE}, MaxTasks)
    \/ DLRemoveTask
    \/ AppStateAddTask({FALSE}, MaxTasks)
    \/ AppStateRemoveTask

SpecOrder == Init /\ [][NextOrder]_vars

(***************************************************************************)
(* SpecState: the operations of the data-layer AppState.                    *)
(***************************************************************************)
NextState ==
    \/ DLAddTask({<<"a">>}, {FALSE}, MaxTasks)
    \/ DLUpdateTask({[completed |-> TRUE], [completed |-> FALSE]})
    \/ DLRemoveTask
    \/ DLSetTasks
    \/ DLFromJSON(DL_StateData)

SpecState == Init /\ [][NextState]_vars

\* the order values of the tasks of a state
OrderValues(s) == {s.tasks[i].order : i \in 1..Len(s.tasks)}

OrdersContiguous(s) ==
    /\ OrderValues(s) = 0..(Len(s.tasks) - 1)
    /\ \A i, j \in 1..Len(s.tasks) : s.tasks[i].order = s.tasks[j].order => i = j

\* C1: after every addTask or removeTask, starting from the empty state, the
\* order values of the held tasks are exactly 0..N-1 without duplicates, in
\* the data-layer AppState and in the app.js AppState.
C1_OrderInvariant == OrdersContiguous(state) /\ OrdersContiguous(appState)

\* C1 witness: a task was removed from the middle of three and the
\* survivors were renumbered, in both classes
C1_Witness ==
    /\ result.op = "App.removeTask" /\ result.ret
    /\ Len(appState.tasks) = 2 /\ appState.tasks[2].id = 3
    /\ Len(state.tasks) = 2 /\ state.tasks[2].id = 3 /\ state.nextOrderId = 2

\* round(100 * completed / total): the integer r with r - 1/2 <= q < r + 1/2
IsRounded(r, completed, total) ==
    /\ 2 * r * total - total <= 200 * completed
    /\ 200 * completed < 2 * r * total + total

CompletedCount(s) == Cardinality({i \in 1..Len(s.tasks) : s.tasks[i].completed = TRUE})

NextStorage ==
    \/ DLAddTask(Texts, {FALSE}, MaxSavedTasks)
    \/ DLRemoveTask
    \/ DLSaveState(1)
    \/ DLSaveStateResume(1)
    \/ DLLoadState
    \/ DLClearStorage
    \/ DLExportData
    \/ DLImportData
    \/ TamperRecord(TamperKinds)
    \/ SetStorageAvailable

SpecStorage == Init /\ [][NextStorage]_vars

\* C7: a data-layer saveState that fails (storage unavailable, envelope
\* over the 5 MiB bound, setItem raising) returns false without throwing and
\* leaves the stored record and state.lastSync as they were.
C7_FailedSaveChangesNothing ==
    [][(result'.op = "saveState" /\ ~result'.ret)
          => /\ ~result'.threw
             /\ localStorage' = localStorage
             /\ state'.lastSync = state.lastSync]_vars

\* C7 witness: a save failed on the size bound while an earlier record was
\* stored
C7_Witness ==
    /\ result.op = "saveState" /\ ~result.ret /\ result.why = "size"
    /\ DL_stored # <<>>

StorageOps == {"saveState", "loadState", "clearStorage", "exportData", "importData"}

\* C8: no public operation of the storage service (save, load, clear,
\* export, import) lets an exception reach its caller.
C8_NoExceptionPropagates == result.op \in StorageOps => ~result.threw

\* C9: a data-layer saveState that succeeds stores the envelope of the
\* serialisation taken when the call started, with the checksum of that
\* serialisation, and stamps state.lastSync; no other step of the storage
\* service changes lastSync.
C9_SuccessfulSave ==
    [][/\ result'.op = "saveState.await"
          => \E k \in Savers :
                /\ pendingSaves[k] = <<>> /\ pendingSaves'[k] # <<>>
                /\ pendingSaves'[k][1].state = DL_toJSON(state)
       /\ (result'.op = "saveState" /\ result'.ret)
          => \E k \in Savers :
                /\ pendingSaves[k] # <<>> /\ pendingSaves'[k] = <<>>
                /\ DL_stored' # <<>> /\ DL_stored'[1].parses
                /\ DL_stored'[1].value[1].state = <<pendingSaves[k][1].state>>
                /\ DL_stored'[1].value[1].checksum
                      = <<DL_generateChecksum(pendingSaves[k][1].state)>>
                /\ state'.lastSync = <<now>>
       /\ state'.lastSync # state.lastSync
          => (result'.op = "saveState" /\ result'.ret)]_vars

\* C9 witness: a save succeeded after the state was changed during its
\* suspension: the record holds the snapshot, not the present tasks
C9_Witness ==
    /\ result.op = "saveState" /\ result.ret
    /\ state.lastSync # <<>>
    /\ DL_stored # <<>>
    /\ DL_stored[1].value[1].state[1].tasks # DL_toJSON(state).tasks

\* a record that cannot be parsed or fails the structural validation
StructurallyBroken(raw) ==
    \/ ~raw.parses
    \/ raw.value = <<>>
    \/ raw.value[1].version = <<>>
    \/ raw.value[1].timestamp = <<>>
    \/ raw.value[1].state = <<>>
    \/ raw.value[1].state[1].tasksKind # "array"

C21_UnavailableIsReported ==
    (result.op \in {"saveState", "loadState"} /\ ~storageAvailable)
    => /\ ~result.threw
       /\ result.op = "loadState" => loaded = <<DL_AppState>>
       /\ result.op = "saveState" => ~result.ret
       /\ dispatched \cap DL_WindowEvents # {}

\* C22: a save that fails because the envelope is over the size bound, or
\* because setItem raises QuotaExceededError, returns false and dispatches
\* storageQuotaExceeded.
C22_QuotaIsReported ==
    (result.op = "saveState" /\ ~result.ret /\ result.why \in {"size", "QuotaExceededError"})
    => (~result.threw /\ "storageQuotaExceeded" \in dispatched)

(***************************************************************************)
(* SpecBackup: records are saved, altered, cleared, exported as a backup    *)
(* that the caller keeps, and imported from that backup or from a file.     *)
(***************************************************************************)
\* exportData(), the caller keeping the text returned
DLExportBackup ==
    /\ ExportDataCall
    /\ backup' = [backup EXCEPT !.exported = IF result'.ret THEN DL_stored ELSE @]

\* importData of a file or of the text that exportData returned
DLImportBackup ==
    \E jsonData \in DL_ImportInputs \cup {backup.exported[i] : i \in 1..Len(backup.exported)} :
        /\ ImportDataCall(jsonData)
        /\ backup' = [backup EXCEPT !.imported = <<jsonData>>]

NextBackup ==
    \/ DLAddTask({<<"a">>}, {FALSE}, MaxSavedTasks)
    \/ DLSaveState(1)
    \/ DLSaveStateResume(1)
    \/ DLClearStorage
    \/ TamperRecord({"garbage", "noVersion"})
    \/ SetStorageAvailable
    \/ DLExportBackup
    \/ DLImportBackup

SpecBackup == Init /\ [][NextBackup]_vars

\* C23: importData writes only after the structural validation: a text that
\* does not parse or validate leaves the stored record as it was (so does
\* every import that fails), and a completed import of the text exportData
\* returned leaves the stored record equal to that text.
C23_ImportCommitsAfterValidation ==
    [][result'.op = "importData" =>
          LET jsonData == backup'.imported[1]
          IN  /\ (~jsonData.parses \/ ~DL_validateStoredData(jsonData.value))
                    => (~result'.ret /\ localStorage' = localStorage)
              /\ ~result'.ret => localStorage' = localStorage
              /\ (result'.ret /\ backup.exported = <<jsonData>>)
                    => DL_stored' = backup.exported]_vars

\* C23 witness: the exported record was imported over a cleared storage
C23_Witness ==
    /\ result.op = "importData" /\ result.ret
    /\ backup.exported # <<>> /\ backup.imported = backup.exported
    /\ DL_stored = backup.exported
    /\ DL_stored[1].value[1].state[1].tasks # <<>>
    /\ state.tasks = <<>>

(***************************************************************************)
(* Actions of the TodoApp of a browsing context, and of the browser that    *)
(* delivers storage events to the other contexts of the origin.             *)
(***************************************************************************)
\* task operations the contexts perform between them
MaxOps == 3

\* the operations performed so far: each one is an entry of an undo stack
OpsDone == SeqSum([c \in Contexts |-> Len(app[c].undoStack)])

\* generateId(): 'task_<time>_<random>', never the id of another task
TodoApp_generateId(c) == 10 * c + app[c].created + 1

\* the ids of the tasks context c holds, and an id no task has
TodoApp_heldIds(c) == App_heldIds(app[c].state[1])

UnknownId == 0

\* setItem/removeItem by context c (0: a page without a TodoApp): every other
\* context with a registered listener is sent a storage event, if the value
\* of the key changes
StorageEvents(c, key, oldValue, newValue) ==
    [d \in Contexts |->
        IF d # c /\ app[d].isInitialized /\ oldValue # newValue
        THEN Append(eventQueue[d], [key |-> key, newValue |-> newValue])
        ELSE eventQueue[d]]

dlVars == <<state, storageAvailable, pendingSaves, dispatched, tampering, validation, backup,
           heldSnapshot, loaded, now, appState>>

TodoAppInit(c) ==
    /\ ~app[c].isInitialized
    /\ app' = [app EXCEPT ![c] = TodoApp_init(@, localStorage[App_storageKey],
                                               storageAvailable, now)]
    /\ result' = Outcome("init", TRUE, FALSE, "")
    /\ UNCHANGED <<localStorage, eventQueue, dlVars>>

\* todoApp.addTask(text)
AddTaskCall(c, texts) ==
    /\ app[c].isInitialized
    /\ \E text \in texts :
          LET r == TodoApp_addTask(app[c], text, TodoApp_generateId(c), now)
          IN  /\ app' = [app EXCEPT ![c] = r.app]
              /\ result' = Outcome("TodoApp.addTask", r.ret # <<>>, FALSE, "")
    /\ UNCHANGED <<localStorage, eventQueue, dlVars>>

TodoAppAddTask(c, texts) == OpsDone < MaxOps /\ AddTaskCall(c, texts)

\* todoApp.toggleTask(taskId)
ToggleTaskCall(c, taskIds) ==
    /\ app[c].isInitialized
    /\ \E taskId \in taskIds :
          LET r == TodoApp_toggleTask(app[c], taskId, now)
          IN  /\ app' = [app EXCEPT ![c] = r.app]
              /\ result' = Outcome("TodoApp.toggleTask", r.ret, FALSE, "")
    /\ UNCHANGED <<localStorage, eventQueue, dlVars>>

TodoAppToggleTask(c, taskIds) == OpsDone < MaxOps /\ ToggleTaskCall(c, taskIds)

TodoAppDeleteTask(c, taskIds) ==
    /\ app[c].isInitialized
    /\ OpsDone < MaxOps
    /\ \E taskId \in taskIds :
          LET r == TodoApp_deleteTask(app[c], taskId, now)
          IN  /\ app' = [app EXCEPT ![c] = r.app]
              /\ result' = Outcome("TodoApp.deleteTask", r.ret, FALSE, "")
    /\ UNCHANGED <<localStorage, eventQueue, dlVars>>

\* the callback autoSave() scheduled: storage.saveState(this.state), whose
\* rejection the callback catches
\* a pending timeout of the tab fires: the callback autoSave() has set saves
\* this.state. The id in autoSaveTimer stays as it is (it is never reset to
\* null); it is the id of a fired timeout once no timeout is pending.
AutoSaveTimerFires(c) ==
    /\ app[c].timers > 0
    /\ \E setItem \in SetItemOutcomes :
          LET r == App_saveState(app[c].state[1], localStorage[App_storageKey],
                                 storageAvailable, setItem)
          IN  /\ localStorage' = [localStorage EXCEPT ![App_storageKey] = r.stored]
              /\ eventQueue' = StorageEvents(c, App_storageKey,
                                             localStorage[App_storageKey], r.stored)
              /\ app' = [app EXCEPT ![c].autoSaveTimer =
                                        IF app[c].timers = 1 THEN "fired" ELSE @,
                                    ![c].timers = @ - 1,
                                    ![c].emitted =
                                        IF r.threw
                                        THEN {"storage:error", "autoSave:error"}
                                        ELSE {"storage:sync:complete", "autoSave:complete"}]
              /\ result' = Outcome("autoSave", ~r.threw, FALSE, r.why)
    /\ UNCHANGED dlVars

\* the browser runs the storage listener of context c for the oldest event
HandleStorageEvent(c) ==
    /\ eventQueue[c] # <<>>
    /\ app' = [app EXCEPT ![c] = TodoApp_handleStorageEvent(@, Head(eventQueue[c]), now)]
    /\ eventQueue' = [eventQueue EXCEPT ![c] = Tail(@)]
    /\ result' = Outcome("handleStorageEvent", "storage:sync" \in app'[c].emitted, FALSE,
                         Head(eventQueue[c]).key)
    /\ UNCHANGED <<localStorage, dlVars>>

\* another script of the origin writes its own key
OtherKeyWrite ==
    /\ \A d \in Contexts : Len(eventQueue[d]) < MaxOps
    /\ \E v \in OtherValues :
          LET newValue == <<JsonText(<<[theme |-> v]>>)>>
          IN  /\ newValue # localStorage[OtherKey]
              /\ localStorage' = [localStorage EXCEPT ![OtherKey] = newValue]
              /\ eventQueue' = StorageEvents(0, OtherKey, localStorage[OtherKey], newValue)
    /\ result' = Outcome("environment", TRUE, FALSE, OtherKey)
    /\ UNCHANGED <<app, dlVars>>

(***************************************************************************)
(* SpecApp: two tabs of the application sharing the localStorage of the     *)
(* origin.                                                                  *)
(***************************************************************************)
NextApp ==
    \/ \E c \in Contexts : TodoAppInit(c)
    \/ \E c \in Contexts : TodoAppAddTask(c, {<<"a">>})
    \/ \E c \in Contexts : TodoAppToggleTask(c, TodoApp_heldIds(c))
    \/ \E c \in Contexts : TodoAppDeleteTask(c, TodoApp_heldIds(c))
    \/ \E c \in Contexts : AutoSaveTimerFires(c)
    \/ \E c \in Contexts : HandleStorageEvent(c)
    \/ OtherKeyWrite

SpecApp == Init /\ [][NextApp]_vars

\* TodoApp.setFilter(filterMode)
TodoApp_setFilter(a, filterMode) ==
    [a EXCEPT !.state[1].filters =
                  [showCompleted |-> filterMode # "active",
                   showActive |-> filterMode # "completed"],
              !.emitted = {"filter:changed", "state:changed"}]

TodoAppSetFilter(c, filterModes) ==
    /\ app[c].isInitialized
    /\ \E filterMode \in filterModes :
          app' = [app EXCEPT ![c] = TodoApp_setFilter(@, filterMode)]
    /\ result' = Outcome("setFilter", TRUE, FALSE, "")
    /\ UNCHANGED <<localStorage, eventQueue, dlVars>>

(***************************************************************************)
(* SpecAppFilter: SpecApp with the 'Active' filter button.                  *)
(***************************************************************************)
NextAppFilter ==
    \/ NextApp
    \/ \E c \in Contexts : TodoAppSetFilter(c, {"active"})

SpecAppFilter == Init /\ [][NextAppFilter]_vars

\* this step runs the storage listener of context c
Handled(c) == Len(eventQueue'[c]) < Len(eventQueue[c])

\* the event is the one a saveState of another context caused
IsSaveEvent(event) ==
    /\ event.key = App_storageKey
    /\ event.newValue # <<>>
    /\ event.newValue[1].parses
    /\ event.newValue[1].value # <<>>

\* the state that saveState serialised into the event's new value
Incoming(event) == App_fromJSON(App_AppState, event.newValue[1].value, now)

\* C3: when a context's handleStorageEvent receives the storage event of
\* another context's saveState, the receiver's task collection afterwards is
\* the task collection that was saved.
C3_SyncCarriesSavedState ==
    [][\A c \in Contexts :
          (Handled(c) /\ IsSaveEvent(Head(eventQueue[c])))
             => app'[c].state[1].tasks = Incoming(Head(eventQueue[c])).tasks]_vars

\* C4: a context with a pending auto-save that receives a storage event for
\* its key carrying a different state has its state replaced by the incoming
\* state, the auto-save stays pending, and an auto-save that fires writes the
\* state the context then holds.
C4_ForeignWriteWins ==
    [][\A c \in Contexts :
          /\ (/\ Handled(c)
              /\ IsSaveEvent(Head(eventQueue[c]))
              /\ app[c].autoSaveTimer = "pending"
              /\ App_toJSON(Incoming(Head(eventQueue[c]))) # App_toJSON(app[c].state[1]))
                => /\ App_toJSON(app'[c].state[1]) = App_toJSON(Incoming(Head(eventQueue[c])))
                   /\ app'[c].autoSaveTimer = "pending"
          /\ (/\ app[c].autoSaveTimer = "pending"
              /\ app'[c].autoSaveTimer = "fired"
              /\ result'.ret)
                => localStorage'[App_storageKey] = <<JsonText(<<App_toJSON(app[c].state[1])>>)>>]_vars

\* C5: when the serialised incoming state equals the serialised local state,
\* handleStorageEvent leaves the local state as it is and emits no
\* 'storage:sync' (it replaces and emits only if they differ).
C5_ReplaceOnlyIfDifferent ==
    [][\A c \in Contexts :
          (/\ Handled(c)
           /\ IsSaveEvent(Head(eventQueue[c]))
           /\ App_toJSON(Incoming(Head(eventQueue[c]))) = App_toJSON(app[c].state[1]))
             => /\ app'[c].state = app[c].state
                /\ "storage:sync" \notin app'[c].emitted]_vars

\* C6: a storage event whose key is not the service's storage key changes
\* neither the in-memory state, nor the undo and redo stacks, nor the stored
\* record of the receiving context.
C6_OtherKeysIgnored ==
    [][\A c \in Contexts :
          (Handled(c) /\ Head(eventQueue[c]).key # App_storageKey)
             => /\ app'[c].state = app[c].state
                /\ app'[c].undoStack = app[c].undoStack
                /\ app'[c].redoStack = app[c].redoStack
                /\ localStorage' = localStorage]_vars

\* an event for the other key has just been handled, and every context that
\* listens holds tasks and undo entries while a record is stored
C6_Witness ==
    /\ result.op = "handleStorageEvent"
    /\ result.why = OtherKey
    /\ localStorage[App_storageKey] # <<>>
    /\ \A c \in Contexts :
          app[c].isInitialized => (app[c].state[1].tasks # <<>> /\ app[c].undoStack # <<>>)

(***************************************************************************)
(* SpecIntegrity: envelopes written by saveState, altered outside the       *)
(* service in ways that keep them structurally valid, and loaded again.     *)
(***************************************************************************)
NextIntegrity ==
    \/ DLAddTask({<<"a">>}, {FALSE}, MaxSavedTasks)
    \/ DLRemoveTask
    \/ DLSaveState(1)
    \/ DLSaveStateResume(1)
    \/ TamperRecord(IntegrityTamperKinds)
    \/ DLLoadState

SpecIntegrity == Init /\ [][NextIntegrity]_vars

\* loadState has just read the stored record, which is structurally valid
LoadedStoredRecord ==
    /\ result.op = "loadState"
    /\ result.why # "unavailable"
    /\ DL_stored # <<>>
    /\ DL_stored[1].parses
    /\ DL_validateStoredData(DL_stored[1].value)

\* the task objects of the stored envelope
StoredTasks == DL_stored[1].value[1].state[1].tasks

\* C11: when only the checksum field of a structurally valid envelope is
\* corrupted, loadState returns a state holding the stored tasks and reports
\* the mismatch as a warning.
C11_ChecksumCorruptionIsSoft ==
    (LoadedStoredRecord /\ tampering = {"checksum"})
       => /\ ~result.threw
          /\ [i \in 1..Len(loaded[1].tasks) |-> DL_Task_toJSON(loaded[1].tasks[i])] = StoredTasks
          /\ ChecksumWarning \in dispatched

C11_Witness ==
    /\ LoadedStoredRecord
    /\ tampering = {"checksum"}
    /\ Len(StoredTasks) = MaxSavedTasks
    /\ Len(loaded[1].tasks) = MaxSavedTasks
    /\ ChecksumWarning \in dispatched

\* C12: when the state payload of an envelope written by saveState was
\* altered and its checksum field kept, loadState finds the recomputed
\* checksum different from the stored one and takes the mismatch branch.
C12_PayloadTamperDetected ==
    (LoadedStoredRecord /\ tampering \cap StateTamperKinds # {} /\ "checksum" \notin tampering)
       => /\ DL_stored[1].value[1].checksum
                # <<DL_generateChecksum(DL_stored[1].value[1].state[1])>>
          /\ ChecksumWarning \in dispatched
          /\ result.why = "checksumMismatch"

C12_Witness ==
    /\ LoadedStoredRecord
    /\ tampering = {"stateCounter"}
    /\ StoredTasks # <<>>
    /\ result.why = "checksumMismatch"

\* C13: for an envelope written by saveState and left as it is, or altered
\* only in its version or timestamp, loadState reports no checksum mismatch.
C13_NoSpuriousMismatch ==
    (LoadedStoredRecord /\ tampering \subseteq {"version", "timestamp"})
       => /\ ChecksumWarning \notin dispatched
          /\ result.why = "loaded"

C13_Witness ==
    /\ LoadedStoredRecord
    /\ tampering = {"version", "timestamp"}
    /\ StoredTasks # <<>>
    /\ result.why = "loaded"
    /\ loaded[1].tasks # <<>>

(***************************************************************************)
(* SpecRoundTrip: states built by the AppState operations, serialised with  *)
(* toJSON and read back into a fresh AppState at a later clock reading.     *)
(***************************************************************************)
\* state.setFilters(filters)
DLSetFilters ==
    /\ \E filters \in {[status |-> "completed"], [status |-> "all", search |-> "a"]} :
          state' = DL_setFilters(state, filters)
    /\ result' = Outcome("setFilters", TRUE, FALSE, "")
    /\ dispatched' = {}
    /\ loaded' = <<>>
    /\ UNCHANGED <<localStorage, storageAvailable, pendingSaves, now, appVars, tampering>>

\* new AppState().fromJSON(state.toJSON())
DLRoundTrip ==
    /\ loaded' = <<DL_fromJSON(DL_AppState, <<DL_toJSON(state)>>, now + 1)>>
    /\ result' = Outcome("roundTrip", ~DL_fromJSON_throws(<<DL_toJSON(state)>>), FALSE, "")
    /\ dispatched' = {}
    /\ UNCHANGED <<state, localStorage, storageAvailable, pendingSaves, now, appVars,
                   tampering>>

NextRoundTrip ==
    \/ DLAddTask({<<"a">>}, {FALSE}, MaxTasks)
    \/ DLUpdateTask({[completed |-> TRUE], [order |-> 0]})
    \/ DLSetFilters
    \/ DLFromJSON({d \in DL_StateData : d # <<>> /\ d[1].tasksKind = "absent"})
    \/ DLRoundTrip

SpecRoundTrip == Init /\ [][NextRoundTrip]_vars

\* C14: a fresh AppState on which fromJSON(s.toJSON()) is applied holds the
\* same tasks (every field), filters, nextOrderId and lastSync as s.
C14_RoundTrip ==
    result.op = "roundTrip"
       => /\ result.ret
          /\ loaded[1].tasks = state.tasks
          /\ loaded[1].filters = state.filters
          /\ loaded[1].nextOrderId = state.nextOrderId
          /\ loaded[1].lastSync = state.lastSync

C14_Witness ==
    /\ result.op = "roundTrip"
    /\ Len(state.tasks) >= 2
    /\ \E i \in 1..Len(state.tasks) : state.tasks[i].completed
    /\ state.filters # DL_defaultFilters
    /\ state.lastSync # <<>>
    /\ loaded[1].tasks = state.tasks

(***************************************************************************)
(* SpecUpdate: addTask and updateTask on both AppState classes, with ids    *)
(* that are held and ids that are not.                                      *)
(***************************************************************************)
NextUpdate ==
    \/ DLAddTask({<<"a">>}, {FALSE}, MaxHeld)
    \/ DLUpdateTask(DL_Updates)
    \/ AppStateAddTask({FALSE}, MaxHeld)
    \/ AppStateUpdateTask(App_Updates)

SpecUpdate == Init /\ [][NextUpdate]_vars

\* the ids of the tasks of a state, as the operations report them
HeldIdNames(s) == {ToString(s.tasks[i].id) : i \in 1..Len(s.tasks)}

\* C15: updateTask with an id no task has returns false, does not throw, and
\* leaves tasks, stats, filters and nextOrderId as they were (both classes).
C15_UpdateUnknownId ==
    [][/\ (result'.op = "updateTask" /\ result'.why \notin HeldIdNames(state))
            => /\ ~result'.ret /\ ~result'.threw
               /\ state'.tasks = state.tasks
               /\ state'.stats = state.stats
               /\ state'.filters = state.filters
               /\ state'.nextOrderId = state.nextOrderId
       /\ (result'.op = "App.updateTask" /\ result'.why \notin HeldIdNames(appState))
            => /\ ~result'.ret /\ ~result'.threw
               /\ appState' = appState]_vars

C15_Witness ==
    /\ result.op = "updateTask"
    /\ result.why \notin HeldIdNames(state)
    /\ ~result.ret
    /\ Len(state.tasks) = 2 /\ state.stats.completed = 1
    /\ Len(appState.tasks) = 2

\* C25: no two tasks of a data-layer AppState have the same order, whatever
\* operations (updateTask with an order among them) were applied.
C25_OrdersUnique ==
    \A i, j \in 1..Len(state.tasks) :
        state.tasks[i].order = state.tasks[j].order => i = j

\* the tasks other than the one with the id, in their order
Without(tasks, taskId) == SelectSeq(tasks, LAMBDA x : x.id # taskId)

\* C16: removeTask(id) for a held id removes exactly that task, keeps the
\* others in their relative order renumbered 0..N-1 and returns true; for an
\* id not held it returns false and changes nothing (both classes; app.js
\* also refreshes updatedAt of the renumbered tasks).
C16_RemoveTask ==
    [][\A taskId \in Ids :
          /\ (result'.op = "removeTask" /\ result'.why = ToString(taskId))
               => IF taskId \in DL_heldIds(state)
                  THEN /\ result'.ret
                       /\ Len(state'.tasks) = Len(state.tasks) - 1
                       /\ state'.tasks =
                             [i \in 1..Len(Without(state.tasks, taskId)) |->
                                 [Without(state.tasks, taskId)[i] EXCEPT !.order = i - 1]]
                  ELSE ~result'.ret /\ state' = state
          /\ (result'.op = "App.removeTask" /\ result'.why = ToString(taskId))
               => IF taskId \in App_heldIds(appState)
                  THEN /\ result'.ret
                       /\ Len(appState'.tasks) = Len(appState.tasks) - 1
                       /\ appState'.tasks =
                             [i \in 1..Len(Without(appState.tasks, taskId)) |->
                                 [Without(appState.tasks, taskId)[i]
                                     EXCEPT !.order = i - 1,
                                            !.updatedAt = appState'.tasks[i].updatedAt]]
                  ELSE ~result'.ret /\ appState' = appState]_vars

C16_Witness ==
    /\ result.op = "removeTask" /\ result.ret /\ result.why = "1"
    /\ Len(state.tasks) = 2
    /\ state.tasks[1].id = 2 /\ state.tasks[1].order = 0
    /\ state.tasks[2].id = 3 /\ state.tasks[2].order = 1
    /\ appState.tasks # <<>>

(***************************************************************************)
(* The ValidationService on its own: candidates are validated, and the      *)
(* value at hand is sanitised again and again.                              *)
(***************************************************************************)
MaxLen == 3
MaxSanitize == 2

Alphabet == {"a", " ", "<", ">", "/"}

RECURSIVE TextsUpTo(_)
TextsUpTo(n) ==
    IF n = 0 THEN {<<>>}
    ELSE TextsUpTo(n - 1) \cup
         {Append(text, c) : text \in {t \in TextsUpTo(n - 1) : Len(t) = n - 1}, c \in Alphabet}

\* a text of n letters
Letters(n) == [i \in 1..n |-> "a"]

\* the short texts, and texts at the 255 limit: at it, over it, and one whose
\* 255th character is a space
CandidateTexts ==
    TextsUpTo(MaxLen) \cup {Letters(255), Letters(256), Letters(254) \o <<" ", "a">>}

CandidatePriorities == {<<>>, <<"">>, <<"high">>, <<"urgent">>}

CandidateCategories == {<<>>, << <<" ", "a">> >>, <<Letters(51)>>}

\* candidates of every text with nothing else, and of one text with every
\* priority and category
Candidates ==
    {TaskData(text, <<>>, <<>>) : text \in {<<>>} \cup {<<t>> : t \in CandidateTexts}}
    \cup {TaskData(<<Letters(1)>>, priority, category) :
              priority \in CandidatePriorities, category \in CandidateCategories}

\* the updates handed to validateTaskUpdate
UpdateCandidates ==
    [text : {<<>>, << <<>> >>, <<Letters(1)>>},
     completed : {<<>>, <<JsValue("boolean", "true")>>, <<JsValue("string", "yes")>>},
     priority : {<<>>, <<"low">>, <<"high">>, <<"urgent">>},
     category : {<<>>, <<Letters(1)>>},
     order : {<<>>, <<JsValue("number", "1")>>, <<JsValue("string", "first")>>},
     others : {{}, {"id"}}]

\* the argument is an updates object, not a candidate task
IsUpdates(x) == "others" \in DOMAIN x

\* the ValidationService with the argument x at hand
Handed(x) == [NoValidation EXCEPT !.candidate = x, !.value = x]

\* validateTask(taskData), of the candidate at hand
DLValidateTask(candidates) ==
    /\ validation.candidate \in candidates
    /\ LET v == DL_validateTask(validation.candidate)
       IN  /\ validation' = [validation EXCEPT !.op = "validateTask",
                                               !.value = validation.candidate,
                                               !.sanitized = 0,
                                               !.isValid = v.isValid,
                                               !.errors = v.errors,
                                               !.warnings = v.warnings]
           /\ result' = Outcome("validateTask", v.isValid, FALSE, "")
    /\ UNCHANGED <<state, localStorage, storageAvailable, pendingSaves, dispatched,
                   tampering, backup, heldSnapshot, loaded, now, appState, app, eventQueue>>

\* validateTaskUpdate(updates), of the updates at hand
DLValidateTaskUpdate(updatesSet) ==
    /\ validation.candidate \in updatesSet
    /\ LET v == DL_validateTaskUpdate(validation.candidate)
       IN  /\ validation' = [validation EXCEPT !.op = "validateTaskUpdate",
                                               !.isValid = v.isValid,
                                               !.errors = v.errors,
                                               !.warnings = v.warnings]
           /\ result' = Outcome("validateTaskUpdate", v.isValid, FALSE, "")
    /\ UNCHANGED <<state, localStorage, storageAvailable, pendingSaves, dispatched,
                   tampering, backup, heldSnapshot, loaded, now, appState, app, eventQueue>>

\* sanitizeTask(value), of the value at hand
DLSanitizeTask ==
    /\ ~IsUpdates(validation.value)
    /\ validation.sanitized < MaxSanitize
    /\ validation' = [validation EXCEPT !.op = "sanitizeTask",
                                        !.value = DL_sanitizeTask(@),
                                        !.sanitized = @ + 1]
    /\ result' = Outcome("sanitizeTask", TRUE, FALSE, "")
    /\ UNCHANGED <<state, localStorage, storageAvailable, pendingSaves, dispatched,
                   tampering, backup, heldSnapshot, loaded, now, appState, app, eventQueue>>

\* app.js, as TodoApp.addTask uses its ValidationService: validateTask, then
\* sanitizeText of the text
AppSanitizeText(candidates) ==
    /\ validation.candidate \in candidates
    /\ TruthyText(validation.candidate.text)
    /\ LET text == validation.candidate.text[1]
       IN  validation' = [validation EXCEPT !.op = "App.sanitizeText",
                                           !.value = TaskData(<<App_sanitizeText(text)>>, <<>>, <<>>),
                                           !.sanitized = 1,
                                           !.isValid = App_validateTask(text),
                                           !.errors = <<>>,
                                           !.warnings = <<>>]
    /\ result' = Outcome("App.sanitizeText", TRUE, FALSE, "")
    /\ UNCHANGED <<state, localStorage, storageAvailable, pendingSaves, dispatched,
                   tampering, backup, heldSnapshot, loaded, now, appState, app, eventQueue>>

InitValidation ==
    /\ InitServices
    /\ validation \in {Handed(x) : x \in Candidates \cup UpdateCandidates}

NextValidation ==
    \/ DLValidateTask(Candidates)
    \/ DLValidateTaskUpdate(UpdateCandidates)
    \/ DLSanitizeTask
    \/ AppSanitizeText({TaskData(<<text>>, <<>>, <<>>) : text \in TextsUpTo(MaxLen)})

SpecValidation == InitValidation /\ [][NextValidation]_vars

\* C17: sanitising is idempotent: sanitizeTask of an already sanitised
\* candidate gives that candidate back (for the text: sanitizeText twice is
\* sanitizeText once).
C17_SanitizeIdempotent ==
    [][(/\ validation.op = "sanitizeTask"
        /\ validation'.op = "sanitizeTask"
        /\ validation'.sanitized = validation.sanitized + 1)
          => validation'.value = validation.value]_vars

\* C18: the text is never empty after sanitisation: when validateTask accepted
\* the candidate, the sanitised text is a non-empty string.
C18_TextNeverEmpty ==
    (validation.op \in {"sanitizeTask", "App.sanitizeText"}
        /\ validation.isValid /\ validation.sanitized = 1)
      => (validation.value.text # <<>> /\ validation.value.text[1] # <<>>)

\* the text is missing, empty or made of white space only
BlankText(opt) == opt = <<>> \/ \A i \in 1..Len(opt[1]) : IsSpace(opt[1][i])

\* C19: validateTask rejects every candidate whose text is missing, empty or
\* white space only; isValid is true exactly when there are no errors; and a
\* candidate whose only fault is a character outside the pattern is valid,
\* with a warning.
C19_ValidateTask ==
    validation.op = "validateTask" =>
        LET taskData == validation.candidate
        IN  /\ BlankText(taskData.text) => ~validation.isValid
            /\ validation.isValid <=> validation.errors = <<>>
            /\ (/\ ~BlankText(taskData.text)
                /\ Len(Trim(taskData.text[1])) <= 255
                /\ \E i \in 1..Len(taskData.text[1]) : taskData.text[1][i] = "/"
                /\ taskData.priority \in {<<>>, <<"">>} \cup {<<p>> : p \in DL_priorityEnum}
                /\ (taskData.category = <<>> \/ Len(taskData.category[1]) <= 50))
               => (validation.isValid /\ validation.warnings # <<>>)

C19_Witness ==
    /\ validation.op = "validateTask"
    /\ validation.candidate.text = << <<"a", "/">> >>
    /\ validation.isValid
    /\ validation.warnings = <<"Task text contains unusual characters">>

\* C20: validateTaskUpdate applies to each present field that field's rule
\* only: an update of whitelisted fields whose values are each valid (a text
\* that is not blank, a boolean completed, a priority of the enumeration, a
\* numeric order) is valid, and an update with any other field is not.
C20_ValidateTaskUpdate ==
    validation.op = "validateTaskUpdate" =>
        LET updates == validation.candidate
        IN  /\ updates.others # {} => ~validation.isValid
            /\ (/\ updates.others = {}
                /\ (updates.text = <<>> \/ ~BlankText(updates.text))
                /\ (updates.completed = <<>> \/ updates.completed[1].type = "boolean")
                /\ (updates.priority = <<>> \/ updates.priority[1] \in DL_priorityEnum)
                /\ (updates.order = <<>> \/ updates.order[1].type = "number"))
               => validation.isValid

(***************************************************************************)
(* SpecTask: Task.update called on the tasks of the data-layer AppState,     *)
(* directly and through updateTask, while the clock advances.               *)
(***************************************************************************)
\* readings of the clock
MaxClock == 2

\* time passes
Tick ==
    /\ now < MaxClock
    /\ now' = now + 1
    /\ result' = Outcome("tick", TRUE, FALSE, "")
    /\ UNCHANGED <<state, localStorage, storageAvailable, pendingSaves, dispatched, tampering,
                   loaded, appVars>>

\* arguments of Task.update: whitelisted keys, other keys, both, and none
DL_TaskUpdates ==
    {[completed |-> TRUE], [order |-> 2], [priority |-> "high"],
     [id |-> 3], [updatedAt |-> 0],
     [id |-> 3, createdAt |-> 2, category |-> "work"],
     <<>>}

\* task.update(updates) on a task of the state
DLTaskUpdate(updatesSet) ==
    /\ \E i \in 1..Len(state.tasks), updates \in updatesSet :
          /\ state' = [state EXCEPT !.tasks[i] = DL_Task_update(@, updates, now)]
          /\ result' = Outcome("Task.update", TRUE, FALSE, ToString(state.tasks[i].id))
    /\ dispatched' = {}
    /\ loaded' = <<>>
    /\ UNCHANGED <<localStorage, storageAvailable, pendingSaves, now, appVars, tampering>>

NextTask ==
    \/ DLAddTask({<<"a">>}, {FALSE}, MaxSavedTasks)
    \/ Tick
    \/ DLTaskUpdate(DL_TaskUpdates)
    \/ DLUpdateTask({[id |-> 3, createdAt |-> 2, category |-> "work"]})

SpecTask == Init /\ [][NextTask]_vars

\* C26: Task.update changes no field outside the whitelist {text, completed,
\* priority, category, order}: id and createdAt stay whatever keys the argument
\* has, nothing is raised, and updatedAt is the clock reading of the call.
C26_UpdateWhitelist ==
    [][(result'.op \in {"Task.update", "updateTask"} /\ result'.why \in HeldIdNames(state))
          => /\ ~result'.threw
             /\ Len(state'.tasks) = Len(state.tasks)
             /\ \A i \in 1..Len(state.tasks) :
                    IF ToString(state.tasks[i].id) = result'.why
                    THEN /\ \A f \in DL_TaskFields \ (DL_allowedUpdates \cup {"updatedAt"}) :
                               state'.tasks[i][f] = state.tasks[i][f]
                         /\ state'.tasks[i].updatedAt = now
                    ELSE state'.tasks[i] = state.tasks[i]]_vars

\* C26 witness: the update {id, createdAt, category}, the only one that sets
\* the category, was applied at a later clock reading than the task was made
C26_Witness ==
    /\ result.op = "Task.update"
    /\ state.tasks # <<>>
    /\ state.tasks[1].id = 1 /\ state.tasks[1].createdAt = 0
    /\ state.tasks[1].category = "work" /\ state.tasks[1].updatedAt = 2

(***************************************************************************)
(* SpecFilter: the data-layer AppState with tasks of differing text,         *)
(* completion, priority and category, under every combination of filters.   *)
(***************************************************************************)
\* filter objects handed to setFilters, one key each
DL_FilterInputs ==
    {[category |-> c] : c \in {"all", "work"}}
    \cup {[priority |-> p] : p \in {"all", "high"}}
    \cup {[status |-> st] : st \in {"all", "completed", "pending"}}
    \cup {[search |-> se] : se \in {"", "A", "b"}}

\* state.setFilters(filters)
DLSetFilter(filtersSet) ==
    /\ \E filters \in filtersSet : state' = DL_setFilters(state, filters)
    /\ result' = Outcome("setFilters", TRUE, FALSE, "")
    /\ dispatched' = {}
    /\ loaded' = <<>>
    /\ UNCHANGED <<localStorage, storageAvailable, pendingSaves, now, appVars, tampering>>

\* state.getFilteredTasks()
DLGetFilteredTasks ==
    /\ result' = Outcome("getFilteredTasks", DL_getFilteredTasks(state), FALSE, "")
    /\ dispatched' = {}
    /\ loaded' = <<>>
    /\ UNCHANGED <<state, localStorage, storageAvailable, pendingSaves, now, appVars, tampering>>

NextFilter ==
    \/ DLAddTask({<<"a">>, <<"A", "b">>}, {FALSE}, MaxHeld)
    \/ DLUpdateTask({[completed |-> TRUE, priority |-> "high"], [category |-> "work"]})
    \/ DLSetFilter(DL_FilterInputs)
    \/ DLGetFilteredTasks

SpecFilter == Init /\ [][NextFilter]_vars

\* the task satisfies the filter on category, on priority, on status and on
\* the search text
SatisfiesFilters(filters, task) ==
    /\ filters.category = "all" \/ task.category = filters.category
    /\ filters.priority = "all" \/ task.priority = filters.priority
    /\ \/ filters.status = "all"
       \/ filters.status = "completed" /\ task.completed
       \/ filters.status = "pending" /\ ~task.completed
    /\ \E i \in 0..Len(task.text), j \in 0..Len(task.text) :
          DL_toLowerCase(SubSeq(task.text, i + 1, j)) = DL_toLowerCase(DL_chars(filters.search))

\* the positions of the tasks that satisfy the filters
SatisfyingPositions(s) == {i \in 1..Len(s.tasks) : SatisfiesFilters(s.filters, s.tasks[i])}

\* C27: getFilteredTasks returns exactly the held tasks that satisfy the
\* category, priority, status and search filters together, in the order of
\* the collection, from the tasks and filters held at the call, and leaves the
\* state as it was.
C27_FilteredTasks ==
    [][result'.op = "getFilteredTasks"
          => /\ state' = state
             /\ Len(result'.ret) = Cardinality(SatisfyingPositions(state))
             /\ \E pos \in [1..Len(result'.ret) -> SatisfyingPositions(state)] :
                    /\ \A i, j \in DOMAIN pos : i < j => pos[i] < pos[j]
                    /\ \A i \in DOMAIN pos : result'.ret[i] = state.tasks[pos[i]]]_vars

\* C27 witness: of two held tasks the call returned only the second one,
\* found by a search in the other case, with a status filter set as well
C27_Witness ==
    /\ result.op = "getFilteredTasks"
    /\ Len(state.tasks) = 2
    /\ state.filters.search = "b" /\ state.filters.status = "completed"
    /\ state.tasks[2].text = <<"A", "b">>
    /\ result.ret = <<state.tasks[2]>>

(***************************************************************************)
(* SpecSnapshot: a standalone app.js AppState is changed, captured with      *)
(* createSnapshot, changed again and restored.                              *)
(***************************************************************************)
\* the assignments of TodoApp.setFilter to the filters object of the state
AppStateSetFilter(filterModes) ==
    /\ \E filterMode \in filterModes :
          appState' = [appState EXCEPT !.filters =
                          [showCompleted |-> filterMode # "active",
                           showActive |-> filterMode # "completed"]]
    /\ result' = Outcome("App.setFilter", TRUE, FALSE, "")
    /\ UNCHANGED <<state, localStorage, storageAvailable, pendingSaves, dispatched,
                   tampering, validation, backup, heldSnapshot, loaded, now, app, eventQueue>>

\* snapshot = appState.createSnapshot()
AppStateCreateSnapshot ==
    /\ heldSnapshot' = <<App_createSnapshot(appState)>>
    /\ result' = Outcome("App.createSnapshot", TRUE, FALSE, "")
    /\ UNCHANGED <<state, localStorage, storageAvailable, pendingSaves, dispatched,
                   tampering, validation, backup, loaded, now, appState, app, eventQueue>>

\* appState.restoreSnapshot(snapshot)
AppStateRestoreSnapshot ==
    /\ heldSnapshot # <<>>
    /\ appState' = IF App_restoreSnapshot_throws(heldSnapshot[1]) THEN appState
                    ELSE App_restoreSnapshot(appState, heldSnapshot[1], now)
    /\ result' = Outcome("App.restoreSnapshot", ~App_restoreSnapshot_throws(heldSnapshot[1]),
                         App_restoreSnapshot_throws(heldSnapshot[1]), "")
    /\ UNCHANGED <<state, localStorage, storageAvailable, pendingSaves, dispatched,
                   tampering, validation, backup, heldSnapshot, loaded, now, app, eventQueue>>

NextSnapshot ==
    \/ AppStateAddTask({FALSE}, MaxSavedTasks)
    \/ AppStateUpdateTask({[completed |-> TRUE], [text |-> <<" ">>]})
    \/ AppStateRemoveTask
    \/ AppStateSetFilter({"all", "active"})
    \/ AppStateCreateSnapshot
    \/ AppStateRestoreSnapshot

SpecSnapshot == Init /\ [][NextSnapshot]_vars

\* C28: restoreSnapshot(snapshot) leaves the state with the tasks, filters
\* and stats it had when createSnapshot returned the snapshot, whatever was
\* done to the state in between.
C28_SnapshotRestores ==
    [][result'.op = "App.restoreSnapshot"
          => /\ appState'.tasks = heldSnapshot[1].tasks
             /\ appState'.filters = heldSnapshot[1].filters
             /\ appState'.stats = heldSnapshot[1].stats]_vars

(***************************************************************************)
(* SpecUndo: one tab in which tasks are added, deleted and cleared, and the  *)
(* operations are undone and redone.                                        *)
(***************************************************************************)
\* entries the undo and redo stacks of a tab hold between them
MaxStack == 3

TodoAppClearAllTasks(c) ==
    /\ app[c].isInitialized
    /\ OpsDone < MaxOps
    /\ LET r == TodoApp_clearAllTasks(app[c], now)
       IN  /\ app' = [app EXCEPT ![c] = r.app]
           /\ result' = Outcome("TodoApp.clearAllTasks", r.ret, FALSE, "")
    /\ UNCHANGED <<localStorage, eventQueue, dlVars>>

TodoAppUndo(c) ==
    /\ app[c].isInitialized
    /\ LET r == TodoApp_undo(app[c], now)
       IN  /\ app' = [app EXCEPT ![c] = r.app]
           /\ result' = Outcome("TodoApp.undo", r.ret, FALSE, "")
    /\ UNCHANGED <<localStorage, eventQueue, dlVars>>

TodoAppRedo(c) ==
    /\ app[c].isInitialized
    /\ LET r == TodoApp_redo(app[c], now)
       IN  /\ app' = [app EXCEPT ![c] = r.app]
           /\ result' = Outcome("TodoApp.redo", r.ret, FALSE, "")
    /\ UNCHANGED <<localStorage, eventQueue, dlVars>>

\* the stacks of the tab have room
WithinBudget(c) == Len(app[c].undoStack) + Len(app[c].redoStack) < MaxStack

NextUndo ==
    \/ TodoAppInit(1)
    \/ WithinBudget(1) /\ app[1].created < MaxHeld /\ TodoAppAddTask(1, {<<"a">>})
    \/ WithinBudget(1) /\ TodoAppDeleteTask(1, TodoApp_heldIds(1))
    \/ WithinBudget(1) /\ TodoAppClearAllTasks(1)
    \/ WithinBudget(1) /\ TodoAppUndo(1)
    \/ WithinBudget(1) /\ TodoAppRedo(1)

SpecUndo == Init /\ [][NextUndo]_vars

\* the ids of the tasks of a state are pairwise different
UniqueIds(s) ==
    \A i, j \in 1..Len(s.tasks) : s.tasks[i].id = s.tasks[j].id => i = j

\* C24: whatever addTask, deleteTask, clearAllTasks, undo and redo were
\* called on a TodoApp, no two tasks of its state have the same id.
C24_IdsUnique ==
    \A c \in Contexts : app[c].isInitialized => UniqueIds(app[c].state[1])

(***************************************************************************)
(* SpecHistory: one tab with one task that is toggled until the undo stack  *)
(* is full and its oldest entry is dropped, and undo and redo at the full   *)
(* stack.                                                                   *)
(***************************************************************************)
\* the undo stack is within MaxStack entries of maxUndoSteps
NearLimit(c) == Len(app[c].undoStack) + MaxStack > App_maxUndoSteps

\* the undo stack is not over maxUndoSteps
WithinLimit(c) == Len(app[c].undoStack) <= App_maxUndoSteps

\* the undo stack has room, or still has its first entry to drop
RoomOrFirstEntry(c) ==
    \/ Len(app[c].undoStack) < App_maxUndoSteps
    \/ Len(app[c].undoStack) = App_maxUndoSteps /\ app[c].undoStack[1].action = "create"

NextHistory ==
    \/ TodoAppInit(1)
    \/ app[1].created < 1 /\ AddTaskCall(1, {<<"a">>})
    \/ RoomOrFirstEntry(1) /\ ToggleTaskCall(1, TodoApp_heldIds(1))
    \/ WithinLimit(1) /\ NearLimit(1) /\ TodoAppUndo(1)
    \/ WithinLimit(1) /\ NearLimit(1) /\ TodoAppRedo(1)

SpecHistory == Init /\ [][NextHistory]_vars

\* C29: the undo stack of a TodoApp never holds more than maxUndoSteps
\* entries.
C29_UndoStackBounded ==
    \A c \in Contexts : Len(app[c].undoStack) <= App_maxUndoSteps

(***************************************************************************)
(* SpecLoadedTasks: envelopes written by saveState, a stored task altered   *)
(* outside the service, and the record loaded again.                        *)
(***************************************************************************)
NextLoadedTasks ==
    \/ DLAddTask({<<"a">>}, {FALSE}, MaxSavedTasks)
    \/ DLRemoveTask
    \/ DLSaveState(1)
    \/ DLSaveStateResume(1)
    \/ TamperRecord(TaskTamperKinds \cup {"checksum"})
    \/ DLLoadState

SpecLoadedTasks == Init /\ [][NextLoadedTasks]_vars

\* C30: every task of a state that loadState returned passes Task.validate().
C30_LoadedTasksValid ==
    (result.op = "loadState" /\ loaded # <<>>)
        => \A i \in 1..Len(loaded[1].tasks) : DL_Task_validate(loaded[1].tasks[i])

(***************************************************************************)
(* SpecStart: a tab that starts, adds tasks and saves them, and a second    *)
(* tab that starts while the record is missing, written by the first tab,  *)
(* damaged, or out of reach.                                                *)
(***************************************************************************)
\* The record of the application as another script of the origin, or the
\* user, can leave it: an unparseable text, the text "null", or the first
\* task without its text
AppTamperKinds == {"garbage", "null", "taskNoText"}

App_Tampered(raw, kind) ==
    CASE kind = "garbage" -> Garbage
      [] kind = "null" -> JsonText(<<>>)
      [] kind = "taskNoText" -> JsonText(<<[raw.value[1] EXCEPT !.tasks[1].text = <<>>]>>)

\* the stored record of the application is altered outside the application
AppTamperRecord(kinds) ==
    /\ localStorage[App_storageKey] # <<>>
    /\ \A d \in Contexts : Len(eventQueue[d]) < MaxOps
    /\ \E kind \in kinds :
          LET raw == localStorage[App_storageKey][1]
              newValue == <<App_Tampered(raw, kind)>>
          IN  /\ raw.parses /\ raw.value # <<>>
              /\ kind = "taskNoText" => raw.value[1].tasks # <<>>
              /\ newValue # localStorage[App_storageKey]
              /\ localStorage' = [localStorage EXCEPT ![App_storageKey] = newValue]
              /\ eventQueue' = StorageEvents(0, App_storageKey,
                                             localStorage[App_storageKey], newValue)
    /\ result' = Outcome("tamper", TRUE, FALSE, App_storageKey)
    /\ UNCHANGED <<app, dlVars>>

NextStart ==
    \/ \E c \in Contexts : TodoAppInit(c)
    \/ TodoAppAddTask(1, {<<"a">>})
    \/ AutoSaveTimerFires(1)
    \/ AppTamperRecord(AppTamperKinds)
    \/ SetStorageAvailable

SpecStart == Init /\ [][NextStart]_vars

\* loading the record of the application fails: storage is out of reach, the
\* text does not parse, or an entry of its tasks has no text
LoadFails ==
    \/ ~storageAvailable
    \/ /\ localStorage[App_storageKey] # <<>>
       /\ \/ ~localStorage[App_storageKey][1].parses
          \/ /\ localStorage[App_storageKey][1].value # <<>>
             /\ \E i \in 1..Len(localStorage[App_storageKey][1].value[1].tasks) :
                    localStorage[App_storageKey][1].value[1].tasks[i].text = <<>>

\* C31: init() of a TodoApp always ends with isInitialized = true, and when
\* loading the saved record fails, with the empty default state.
C31_StartsDespiteStorage ==
    [][\A c \in Contexts :
          (result'.op = "init" /\ ~app[c].isInitialized /\ app'[c] # app[c])
              => /\ app'[c].isInitialized
                 /\ LoadFails => app'[c].state = <<App_AppState>>]_vars

\* C31 witness: a tab has started with the empty state although the record
\* holds a task, because the record could not be loaded
C31_Witness ==
    /\ result.op = "init"
    /\ \E c \in Contexts :
          /\ app[c].isInitialized
          /\ app[c].state = <<App_AppState>>
          /\ "storage:error" \in app[c].emitted
    /\ localStorage[App_storageKey] # <<>>
    /\ localStorage[App_storageKey][1].parses
    /\ localStorage[App_storageKey][1].value # <<>>
    /\ localStorage[App_storageKey][1].value[1].tasks # <<>>

(***************************************************************************)
(* SpecImport: a data-layer AppState holding tasks and filters is handed    *)
(* malformed data through fromJSON.                                         *)
(***************************************************************************)
\* malformed arguments of fromJSON: null, a `tasks` value that is not an
\* array, a null entry, and an entry that is an object without text and id
DL_MalformedStateData ==
    {<<>>,
     <<[tasksKind |-> "other", tasks |-> <<>>, nextOrderId |-> <<1>>,
        lastSync |-> <<0>>, filters |-> <<>>]>>,
     <<[tasksKind |-> "array", tasks |-> <<DL_plainTask(1, TRUE, 0), NullEntry>>,
        nextOrderId |-> <<2>>, lastSync |-> <<>>, filters |-> <<>>]>>,
     <<[tasksKind |-> "array", tasks |-> <<[completed |-> TRUE]>>,
        nextOrderId |-> <<1>>, lastSync |-> <<>>, filters |-> <<>>]>>}

NextImport ==
    \/ DLAddTask({<<"a">>}, {FALSE, TRUE}, MaxHeld)
    \/ DLSetFilter(DL_FilterInputs)
    \/ DLFromJSON(DL_MalformedStateData)

SpecImport == Init /\ [][NextImport]_vars

\* C32: fromJSON given malformed data raises nothing, returns false, and
\* leaves the tasks, the counter and the filters of the state as they were.
C32_MalformedImportRejected ==
    [][result'.op = "fromJSON"
          => /\ ~result'.threw
             /\ ~result'.ret
             /\ state'.tasks = state.tasks
             /\ state'.nextOrderId = state.nextOrderId
             /\ state'.filters = state.filters]_vars

(***************************************************************************)
(* SpecAutoSave: one tab whose auto-save timer fires between task           *)
(* operations, undo and redo.                                               *)
(***************************************************************************)
NextAutoSave ==
    \/ TodoAppInit(1)
    \/ WithinBudget(1) /\ app[1].created < 1 /\ AddTaskCall(1, {<<"a">>})
    \/ WithinBudget(1) /\ ToggleTaskCall(1, TodoApp_heldIds(1))
    \/ WithinBudget(1) /\ TodoAppDeleteTask(1, TodoApp_heldIds(1))
    \/ WithinBudget(1) /\ TodoAppClearAllTasks(1)
    \/ WithinBudget(1) /\ TodoAppUndo(1)
    \/ WithinBudget(1) /\ TodoAppRedo(1)
    \/ AutoSaveTimerFires(1)

SpecAutoSave == Init /\ [][NextAutoSave]_vars

\* the operations of a TodoApp that change its task collection
CollectionOps ==
    {"TodoApp.addTask", "TodoApp.toggleTask", "TodoApp.deleteTask",
     "TodoApp.clearAllTasks", "TodoApp.undo", "TodoApp.redo"}

\* C33: after every operation that changed the task collection of a TodoApp
\* an auto-save timer is pending, so that the change reaches the stored
\* record when the timer fires.
C33_ChangeSchedulesAutoSave ==
    [][\A c \in Contexts :
          (/\ result'.op \in CollectionOps
           /\ app[c].isInitialized
           /\ app'[c].state[1].tasks # app[c].state[1].tasks)
              => app'[c].autoSaveTimer = "pending"]_vars

(***************************************************************************)
(* SpecDebounce: one tab whose task operations start the auto-save timer,   *)
(* the timer firing, and the page being left.                               *)
(***************************************************************************)
\* handleBeforeUnload(), after which the page and its timeouts are gone:
\* with an id in autoSaveTimer the timeout is cleared and the state saved
TodoAppBeforeUnload(c) ==
    /\ app[c].isInitialized
    /\ IF app[c].autoSaveTimer = "null"
       THEN /\ result' = Outcome("beforeUnload", FALSE, FALSE, "")
            /\ UNCHANGED <<localStorage, eventQueue>>
       ELSE \E setItem \in SetItemOutcomes :
               LET r == App_saveState(app[c].state[1], localStorage[App_storageKey],
                                      storageAvailable, setItem)
               IN  /\ localStorage' = [localStorage EXCEPT ![App_storageKey] = r.stored]
                   /\ eventQueue' = StorageEvents(c, App_storageKey,
                                                  localStorage[App_storageKey], r.stored)
                   /\ result' = Outcome("beforeUnload", ~r.threw, FALSE, r.why)
    /\ app' = [app EXCEPT ![c] = [TodoApp EXCEPT !.emitted = {"beforeunload"}]]
    /\ UNCHANGED dlVars

\* the tab is opened once: a page that was left is not loaded again
NextDebounce ==
    \/ app[1].emitted = {} /\ TodoAppInit(1)
    \/ app[1].created < MaxHeld /\ TodoAppAddTask(1, {<<"a">>, <<"b">>})
    \/ TodoAppToggleTask(1, TodoApp_heldIds(1))
    \/ TodoAppDeleteTask(1, TodoApp_heldIds(1))
    \/ AutoSaveTimerFires(1)
    \/ TodoAppBeforeUnload(1)

SpecDebounce == Init /\ [][NextDebounce]_vars

\* the operations of a TodoApp that raise a task event
TaskEventOps == {"TodoApp.addTask", "TodoApp.toggleTask", "TodoApp.deleteTask"}

\* C34: a tab never has more than one auto-save timeout pending; after a
\* task event exactly one is pending, however many events came before it;
\* and when it fires none is pending any more and the record written is the
\* state the tab holds at that moment.
C34_AutoSaveDebounced ==
    [][\A c \in Contexts :
          /\ app'[c].timers <= 1
          /\ (result'.op \in TaskEventOps /\ result'.ret /\ app'[c] # app[c])
                => app'[c].timers = 1
          /\ (result'.op = "autoSave" /\ app'[c].timers < app[c].timers)
                => /\ app'[c].timers = 0
                   /\ result'.ret
                         => localStorage'[App_storageKey]
                              = <<JsonText(<<App_toJSON(app[c].state[1])>>)>>]_vars

\* C34 witness: after three task events with no save in between (nothing
\* was stored before), the timer has fired once and stored the two tasks
\* held, the first of them completed
C34_Witness ==
    /\ result.op = "autoSave" /\ result.ret
    /\ app[1].timers = 0
    /\ Len(app[1].undoStack) = 3
    /\ Len(app[1].state[1].tasks) = 2
    /\ app[1].state[1].tasks[1].completed
    /\ localStorage[App_storageKey] = <<JsonText(<<App_toJSON(app[1].state[1])>>)>>

(***************************************************************************)
(* SpecRevert: one tab in which tasks are added, toggled, renamed, deleted  *)
(* and cleared, and the operations are undone.                              *)
(***************************************************************************)
\* todoApp.updateTaskText(taskId, newText)
TodoAppUpdateTaskText(c, taskIds, texts) ==
    /\ app[c].isInitialized
    /\ OpsDone < MaxOps
    /\ \E taskId \in taskIds, newText \in texts :
          LET r == TodoApp_updateTaskText(app[c], taskId, newText, now)
          IN  /\ app' = [app EXCEPT ![c] = r.app]
              /\ result' = Outcome("TodoApp.updateTaskText", r.ret, FALSE, "")
    /\ UNCHANGED <<localStorage, eventQueue, dlVars>>

NextRevert ==
    \/ TodoAppInit(1)
    \/ WithinBudget(1) /\ app[1].created < MaxHeld /\ TodoAppAddTask(1, {<<"a">>})
    \/ WithinBudget(1) /\ TodoAppToggleTask(1, TodoApp_heldIds(1))
    \/ WithinBudget(1) /\ TodoAppUpdateTaskText(1, TodoApp_heldIds(1), {<<"b">>})
    \/ WithinBudget(1) /\ TodoAppDeleteTask(1, TodoApp_heldIds(1))
    \/ WithinBudget(1) /\ TodoAppClearAllTasks(1)
    \/ WithinBudget(1) /\ TodoAppUndo(1)

SpecRevert == Init /\ [][NextRevert]_vars

\* the operations of a TodoApp that undo() reverts
UndoableOps == {"TodoApp.addTask", "TodoApp.toggleTask", "TodoApp.updateTaskText",
                "TodoApp.deleteTask", "TodoApp.clearAllTasks"}

\* id, text, completion and order of every task of a state, in position
Collection(s) ==
    [i \in 1..Len(s.tasks) |->
        [id |-> s.tasks[i].id, text |-> s.tasks[i].text,
         completed |-> s.tasks[i].completed, order |-> s.tasks[i].order]]

\* C35: after a successful addTask, toggleTask, updateTaskText, deleteTask
\* or clearAllTasks, an undo() called next succeeds and leaves the tasks the
\* tab held before the operation: same ids, texts, completion and order.
C35_UndoReverses ==
    [][\A c \in Contexts :
          (result'.op \in UndoableOps /\ result'.ret /\ app'[c] # app[c])
            => LET undone == TodoApp_undo(app'[c], now')
               IN  /\ undone.ret
                   /\ Collection(undone.app.state[1]) = Collection(app[c].state[1])]_vars

(***************************************************************************)
(* SpecRedo: one tab in which tasks are added, toggled and deleted, and the *)
(* operations are undone and redone.                                        *)
(***************************************************************************)
NextRedo ==
    \/ TodoAppInit(1)
    \/ WithinBudget(1) /\ app[1].created < MaxSavedTasks /\ TodoAppAddTask(1, {<<"a">>, <<"b">>})
    \/ WithinBudget(1) /\ TodoAppToggleTask(1, TodoApp_heldIds(1))
    \/ WithinBudget(1) /\ TodoAppDeleteTask(1, TodoApp_heldIds(1))
    \/ WithinBudget(1) /\ TodoAppUndo(1)
    \/ WithinBudget(1) /\ TodoAppRedo(1)

SpecRedo == Init /\ [][NextRedo]_vars

\* k consecutive calls of undo(): the application after them, and whether
\* every call returned true
RECURSIVE UndoTimes(_, _, _)
UndoTimes(a, k, t) ==
    IF k = 0 THEN [app |-> a, ret |-> TRUE]
    ELSE LET first == TodoApp_undo(a, t)
             rest == UndoTimes(first.app, k - 1, t)
         IN  [app |-> rest.app, ret |-> first.ret /\ rest.ret]

\* k consecutive calls of redo()
RECURSIVE RedoTimes(_, _, _)
RedoTimes(a, k, t) ==
    IF k = 0 THEN [app |-> a, ret |-> TRUE]
    ELSE LET first == TodoApp_redo(a, t)
             rest == RedoTimes(first.app, k - 1, t)
         IN  [app |-> rest.app, ret |-> first.ret /\ rest.ret]

\* C36: whatever a tab has done, if k calls of undo() in a row succeed, then
\* k calls of redo() in a row succeed as well and leave the tasks (ids,
\* texts, completion, order) and the length of the undo stack as they were
\* before the first undo.
C36_RedoReapplies ==
    \A c \in Contexts :
       app[c].isInitialized =>
          \A k \in 1..Len(app[c].undoStack) :
             LET undone == UndoTimes(app[c], k, now)
                 redone == RedoTimes(undone.app, k, now)
             IN  undone.ret
                   => /\ redone.ret
                      /\ Collection(redone.app.state[1]) = Collection(app[c].state[1])
                      /\ Len(redone.app.undoStack) = Len(app[c].undoStack)

(***************************************************************************)
(* SpecStats: the operations of a standalone app.js AppState, with update   *)
(* objects that raise before, after and without a change of the task.      *)
(***************************************************************************)
\* appState.clear()
AppStateClear ==
    /\ appState' = App_clear(appState)
    /\ result' = Outcome("App.clear", TRUE, FALSE, "")
    /\ UNCHANGED <<state, localStorage, storageAvailable, pendingSaves, dispatched,
                   tampering, validation, backup, heldSnapshot, loaded, now, app, eventQueue>>

\* update objects: a completion, a valid order, an invalid order alone, and
\* an invalid order together with a completion
App_StatsUpdates ==
    {[completed |-> TRUE], [completed |-> FALSE], [order |-> 0], [order |-> -1],
     [completed |-> TRUE, order |-> -1]}

NextStats ==
    \/ AppStateAddTask({FALSE, TRUE}, MaxSavedTasks)
    \/ AppStateUpdateTask(App_StatsUpdates)
    \/ AppStateRemoveTask
    \/ AppStateClear
    \/ AppStateCreateSnapshot
    \/ AppStateRestoreSnapshot

SpecStats == Init /\ [][NextStats]_vars

\* C37: in every state an app.js AppState is left in by addTask, updateTask
\* (returning or raising), removeTask, clear and restoreSnapshot, total,
\* completed, active and completionRate of its stats are those of its tasks.
C37_AppStatsAgree ==
    /\ appState.stats.total = Len(appState.tasks)
    /\ appState.stats.completed = CompletedCount(appState)
    /\ appState.stats.active = appState.stats.total - appState.stats.completed
    /\ IF appState.stats.total > 0
       THEN IsRounded(appState.stats.completionRate, appState.stats.completed,
                      appState.stats.total)
       ELSE appState.stats.completionRate = 0

(***************************************************************************)
(* SpecOverlap: two callers of the data-layer saveState whose calls overlap *)
(* while the state is changed between their steps.                          *)
(***************************************************************************)
NextOverlap ==
    \/ DLAddTask({<<"a">>}, {FALSE}, MaxSavedTasks)
    \/ DLUpdateTask({[completed |-> TRUE]})
    \/ DLSetFilter({[status |-> "completed"]})
    \/ \E k \in Savers : DLSaveState(k)
    \/ \E k \in Savers : DLSaveStateResume(k)

SpecOverlap == Init /\ [][NextOverlap]_vars

\* C38: whenever the stored record changes, one suspended saveState call has
\* just finished, the record holds exactly the serialisation that call took
\* when it started and the checksum of the payload the record carries; so
\* the record is always that of the call that wrote last.
C38_SavesNeverTorn ==
    [][DL_stored' # DL_stored
          => \E k \in Savers :
                /\ pendingSaves[k] # <<>> /\ pendingSaves'[k] = <<>>
                /\ result'.op = "saveState" /\ result'.ret
                /\ DL_stored' # <<>> /\ DL_stored'[1].parses
                /\ DL_stored'[1].value[1].state = <<pendingSaves[k][1].state>>
                /\ DL_stored'[1].value[1].timestamp = <<pendingSaves[k][1].timestamp>>
                /\ DL_stored'[1].value[1].checksum
                      = <<DL_generateChecksum(DL_stored'[1].value[1].state[1])>>]_vars

\* C38 witness: a call wrote its snapshot while the other call is still
\* suspended on another snapshot and the state has changed since both
C38_Witness ==
    /\ result.op = "saveState" /\ result.ret
    /\ DL_stored # <<>>
    /\ \E k \in Savers :
          /\ pendingSaves[k] # <<>>
          /\ pendingSaves[k][1].state.tasks # DL_stored[1].value[1].state[1].tasks
          /\ pendingSaves[k][1].state.tasks # DL_toJSON(state).tasks
    /\ DL_toJSON(state).tasks # DL_stored[1].value[1].state[1].tasks

(***************************************************************************)
(* SpecPersist: a data-layer state is changed, saved and loaded back.       *)
(***************************************************************************)
NextPersist ==
    \/ DLAddTask({<<"a">>}, {FALSE, TRUE}, MaxHeld)
    \/ DLSetFilter({[status |-> "completed"], [search |-> "A"]})
    \/ DLSaveState(1)
    \/ DLSaveStateResume(1)
    \/ DLLoadState

SpecPersist == Init /\ [][NextPersist]_vars

\* C39: a loadState that directly follows a successful saveState(state)
\* returns a state with the tasks, filters, nextOrderId and lastSync that
\* state has after the save.
C39_SaveLoadRoundTrip ==
    [][(result.op = "saveState" /\ result.ret /\ result'.op = "loadState")
          => /\ loaded'[1].tasks = state.tasks
             /\ loaded'[1].filters = state.filters
             /\ loaded'[1].nextOrderId = state.nextOrderId
             /\ loaded'[1].lastSync = state.lastSync]_vars

====
